---------------------------- MODULE Spec2Model ----------------------------
(***************************************************************************)
(* State-machine model of the findmybizname-platform backend:              *)
(*   - the digital-wallet operations of DatabaseStorage (src/storage.ts)   *)
(*     with every awaited database statement as one atomic step, so that   *)
(*     calls interleave exactly at the await points of the code;           *)
(*   - the community-chat WebSocket broadcaster (src/routes.ts).           *)
(*                                                                         *)
(* Money: a decimal(15,2) column value or a decimal string such as "97.50" *)
(* is represented by its number of cents (9750).  parseFloat of such a     *)
(* string followed by one addition or subtraction and toFixed(2) is exact  *)
(* for every value a decimal(15,2) column can hold (below 2^53 cents), so  *)
(* the arithmetic of the code is integer arithmetic on cents.              *)
(***************************************************************************)
EXTENDS Integers, Sequences, FiniteSets, TLC

VARIABLES
    now,                 \* the time of the chat server's event loop, in ms
    calls,               \* one record per storage call: its arguments, locals and position
    digitalWallets,      \* table digital_wallets, indexed by serial id
    walletTransactions,  \* table wallet_transactions, in insertion order
    walletWithdrawals,   \* table wallet_withdrawals, in insertion order
    readyState,          \* ws.readyState of every WebSocket connection
    userId,              \* the userId variable of every connection's closure
    connectedUsers,      \* the registry Map: username -> ConnectedUser
    welcomeMessagesSent, \* the Set of usernames that were sent the welcome
    timers,              \* pending setTimeout callbacks
    sent,                \* frames the last handler sent, per receiving connection
    lastEvent,           \* the event the last handler processed
    mem,                 \* the MemStorage object: its Maps and id counters
    users,               \* table users, indexed by serial id
    generatedNames,      \* table generated_names, indexed by serial id
    searchHistory,       \* table search_history, in insertion order
    userProfiles,        \* table user_profiles, in insertion order
    referralCodes,       \* table referral_codes, indexed by serial id
    referrals,           \* table referrals, indexed by serial id
    referralStats,       \* table referral_stats, in insertion order
    digitalProductPurchases, \* table digital_product_purchases, in insertion order
    initialized,         \* DatabaseStorageWithInit.initialized
    ops,                 \* one record per asynchronous call or request on DatabaseStorage
    lastOp               \* the storage operation or request that completed last

walletVars == <<calls, digitalWallets, walletTransactions, walletWithdrawals>>

chatVars == <<readyState, userId, connectedUsers, welcomeMessagesSent, timers, sent,
              lastEvent>>

\* The accounts, names and referrals held by the two storage backends, and
\* the calls on them.
storeVars == <<mem, users, generatedNames, searchHistory, userProfiles, referralCodes,
               referrals, referralStats, digitalProductPurchases, initialized, ops,
               lastOp>>

\* The tables of DatabaseStorage among them.
tableVars == <<users, generatedNames, searchHistory, userProfiles, referralCodes, referrals,
               referralStats>>

vars == <<now, calls, digitalWallets, walletTransactions, walletWithdrawals,
          readyState, userId, connectedUsers, welcomeMessagesSent, timers, sent,
          lastEvent, mem, users, generatedNames, searchHistory, userProfiles,
          referralCodes, referrals, referralStats, digitalProductPurchases, initialized,
          ops, lastOp>>

---------------------------------------------------------------------------
(* Bounds of the model *)

MaxCalls == 3

CallIds == 1..MaxCalls
\* The wallet ids calls are given: serial ids of wallets that exist or not.
WalletIds == {1, 2}
\* What Date.now() returns to a createWallet call, as an offset in ms.  The
\* wall clock is not monotonic, and two calls may read it within the same ms.
ClockReadings == {0, 1}
UserIds == {1}
WalletTypes == {"personal", "business"}
Amounts == {250, 10000}

\* An optional argument or column that was not given.
Absent == -1

\* transactionFee of a withdrawal request: absent, or "2.50" as the route passes it.
StandardFee == 250
Fees == {Absent, StandardFee}

---------------------------------------------------------------------------
(* Pure helpers *)

Digits36 == <<"0", "1", "2", "3", "4", "5", "6", "7", "8", "9", "A", "B", "C",
              "D", "E", "F", "G", "H", "I", "J", "K", "L", "M", "N", "O", "P",
              "Q", "R", "S", "T", "U", "V", "W", "X", "Y", "Z">>

\* Number.prototype.toString(36) followed by toUpperCase().
RECURSIVE Base36Upper(_)
Base36Upper(n) ==
    IF n < 36 THEN Digits36[n + 1]
    ELSE Base36Upper(n \div 36) \o Digits36[(n % 36) + 1]

\* String.prototype.toUpperCase() on the wallet types of the model.
ToUpperCase(s) ==
    CASE s = "personal" -> "PERSONAL"
      [] s = "business" -> "BUSINESS"
      [] OTHER -> s

\* The template literal of createWallet.
WalletAddress(owner, walletType, t) ==
    "FMBN" \o ToString(owner) \o ToUpperCase(walletType) \o Base36Upper(t)

\* getWalletBalance: the stored balance, "0.00" when the wallet row is missing.
GetWalletBalance(walletId) ==
    IF walletId \in DOMAIN digitalWallets THEN digitalWallets[walletId].balance ELSE 0

\* A ledger computation that floors a debit at zero, as the direct path does.
LedgerNewBalanceFloored(currentBalance, transactionType, amount) ==
    IF transactionType = "credit" THEN currentBalance + amount
    ELSE IF currentBalance - amount < 0 THEN 0 ELSE currentBalance - amount

\* addWalletTransaction: credit adds, every other type subtracts.
LedgerNewBalance(currentBalance, transactionType, amount) ==
    IF transactionType = "credit" THEN currentBalance + amount
    ELSE currentBalance - amount

Max(a, b) == IF a >= b THEN a ELSE b

\* A direct computation without the floor, as the ledger path computes.
DirectNewBalanceUnfloored(currentBalance, transactionType, amount) ==
    IF transactionType = "credit" THEN currentBalance + amount
    ELSE currentBalance - amount

\* updateWalletBalance: credit adds, debit subtracts and is floored at zero.
DirectNewBalance(currentBalance, transactionType, amount) ==
    IF transactionType = "credit" THEN currentBalance + amount
    ELSE Max(0, currentBalance - amount)

\* parseFloat(withdrawal.transactionFee || "0")
FeeOrZero(fee) == IF fee = Absent THEN 0 ELSE fee

\* A net amount that leaves the fee out.
NetAmountIgnoringFee(amount, fee) == amount

\* createWithdrawal: netAmount = (amount - transactionFee).toFixed(2)
NetAmount(amount, fee) == amount - FeeOrZero(fee)

\* The signed amount of a ledger row: credit = +amount, debit = -amount.
SignedAmount(row) == IF row.transactionType = "credit" THEN row.amount ELSE 0 - row.amount

RECURSIVE SumSigned(_, _)
SumSigned(rows, walletId) ==
    IF rows = <<>> THEN 0
    ELSE (IF Head(rows).walletId = walletId THEN SignedAmount(Head(rows)) ELSE 0)
         + SumSigned(Tail(rows), walletId)

\* Sum of the signed amounts of all WalletTransaction rows of a wallet.
LedgerSum(walletId) == SumSigned(walletTransactions, walletId)

---------------------------------------------------------------------------
(* Community chat: bounds, inputs and frames *)

MaxLongSteps == 1

\* The WebSocket connections the server accepts, in the order of their arrival.
Conns == {1, 2, 3}

\* The connections that are opened when all the handlers are at work.
ChatConns == {1, 2}

\* userId of a connection that has not joined, and a frame field that is
\* missing or empty (both falsy for the || defaults of the join handler).
Null == ""
\* The ws slot of no connection.
NoConn == 0

\* The username of a join_community frame.
Usernames == {"Alice"}
\* `User${Math.floor(Math.random() * 1000)}`: the names the fallback can draw.
RandomUsernames == {"User7"}
\* The userType of a join_community frame.
UserTypes == {"premium"}
\* The message text of a community_message frame.
Texts == {"hello"}

\* setTimeout delays of the join and close handlers, in milliseconds.
WelcomeFollowUpDelay == 2000
WelcomeForgetDelay == 300000

\* The clock of the chat model advances to the due time of the next pending
\* timer, or by the 5 min delay when no timer is due before.
LongStep == WelcomeForgetDelay
MaxTime == MaxLongSteps * LongStep

\* A frame the server sends.  Fields a frame type does not carry are empty.
Frame(type, id, username, message, timestamp, userType, list) ==
    [type |-> type, id |-> id, username |-> username, message |-> message,
     timestamp |-> timestamp, userType |-> userType, users |-> list]

\* The first welcome message of the join handler.
WelcomeFrame(t) ==
    Frame("community_message", ToString(t), "System",
          "Hello. Welcome to FindMyBizName.", t, "supporter", {})

\* The second welcome message, sent by the 2 s timer of the join handler.
WelcomeFollowUpFrame(t) ==
    Frame("community_message", ToString(t + 1), "System",
          "Be sure to give us some feedback about your experience before leaving.",
          t, "supporter", {})

\* The chat message of the community_message handler.
ChatFrame(sender, text, t) ==
    Frame("community_message", ToString(t), sender.username, text, t,
          sender.userType, {})

UserJoinedFrame(user) ==
    Frame("user_joined", user.id, user.username, "", 0, user.userType, {})

UserLeftFrame(id, username) ==
    Frame("user_left", id, username, "", 0, "", {})

\* The users_update snapshot: every registered user without its socket.
UsersUpdateFrame(registry) ==
    Frame("users_update", "", "", "", 0, "",
          {[id |-> registry[k].id, username |-> registry[k].username,
            userType |-> registry[k].userType] : k \in DOMAIN registry})

NoEvent == [kind |-> "none", conn |-> NoConn, username |-> Null, evicted |-> NoConn]

---------------------------------------------------------------------------
(* Accounts: dates, inputs and rows *)

MaxUsers == 1
MaxFeatureUses == 1

\* A Date: getFullYear(), getMonth() (0 = January), getDate() and the
\* millisecond of the day.
Instant(year, month, date, ms) ==
    [year |-> year, month |-> month, date |-> date, ms |-> ms]

\* The instant at which the process starts and MemStorage is constructed.
BootInstant == Instant(2025, 0, 1, 0)

\* What new Date() returns to an operation: the boot day (twice) and the same
\* date of the next month.
Instants == {BootInstant, Instant(2025, 0, 1, 1), Instant(2025, 1, 1, 0)}

\* The three-part comparison of updateUserUsage: two Dates fall on the same
\* calendar day.
SameDay(a, b) == a.date = b.date /\ a.month = b.month /\ a.year = b.year

\* The two-part comparison of the generate-names handler.
SameMonth(a, b) == a.month = b.month /\ a.year = b.year

\* The InsertUser values given to createUser: the demo user as
\* initializeDemoData creates it, another user without a plan, and a user
\* that repeats the demo user's email.  A plan that is not given is Null.
InsertUsers ==
    {[username |-> "demo_user", email |-> "demo@example.com", plan |-> "starter"],
     [username |-> "ana", email |-> "ana@example.com", plan |-> Null],
     [username |-> "ana", email |-> "demo@example.com", plan |-> "free"]}

\* Arguments of the user operations.  The user ids given: the first id of
\* either backend, and an id that no user holds.
UserRefs == {1, MaxUsers + 2}
Usages == {5}
Features == {"brandAnalysis", "nameImprovement"}
CustomerIds == {"cus_1"}
SubscriptionIds == {"sub_1"}

\* A User as createUser of either backend first stores it.
UserRow(id, username, email, plan, t) ==
    [id |-> id, username |-> username, email |-> email, plan |-> plan,
     dailyUsage |-> 0, lastUsageReset |-> t,
     brandAnalysisUsage |-> 0, nameImprovementUsage |-> 0,
     stripeCustomerId |-> Null, stripeSubscriptionId |-> Null]

\* What getUser returns for an id that is not stored.
Undefined == [id |-> 0]

\* MemStorage after its constructor: the demo user holds id 1.
MemStorageNew ==
    [users |-> <<UserRow(1, "demo_user", "demo@example.com", "core", BootInstant)>>,
     currentUserId |-> 2,
     generatedNames |-> <<>>, currentNameId |-> 1,
     referralCodes |-> <<>>, currentReferralCodeId |-> 1,
     referrals |-> <<>>, currentReferralId |-> 1]

\* No operation has completed.
NoOp == [op |-> "none"]

---------------------------------------------------------------------------
(* Storage calls *)

IdleCall ==
    [op |-> "none", pc |-> "idle", error |-> "none",
     userId |-> 0, walletType |-> "", walletAddress |-> "",
     walletId |-> 0, transactionType |-> "", amount |-> 0,
     transactionFee |-> Absent, netAmount |-> 0,
     sourceType |-> "", sourceId |-> Absent, status |-> "",
     currentBalance |-> 0, newBalance |-> 0,
     txnId |-> 0, withdrawalId |-> 0,
     route |-> "none", response |-> 0]

\* Calls are numbered in the order in which they are issued.
NextCall(c) ==
    /\ calls[c].pc = "idle"
    /\ IF c = 1 THEN TRUE ELSE calls[c - 1].pc # "idle"

InFlight(c) == calls[c].pc \notin {"idle", "done", "failed"}

\* No call is suspended at an await.
Quiescent == \A c \in CallIds : ~InFlight(c)

Init ==
    /\ now = 0
    /\ calls = [c \in CallIds |-> IdleCall]
    /\ digitalWallets = <<>>
    /\ walletTransactions = <<>>
    /\ walletWithdrawals = <<>>
    /\ readyState = [c \in Conns |-> "none"]
    /\ userId = [c \in Conns |-> Null]
    /\ connectedUsers = <<>>
    /\ welcomeMessagesSent = {}
    /\ timers = <<>>
    /\ sent = [c \in Conns |-> <<>>]
    /\ lastEvent = NoEvent
    /\ mem = MemStorageNew
    /\ users = <<>>
    /\ generatedNames = <<>>
    /\ searchHistory = <<>>
    /\ userProfiles = <<>>
    /\ referralCodes = <<>>
    /\ referrals = <<>>
    /\ referralStats = <<>>
    /\ digitalProductPurchases = <<>>
    /\ initialized = FALSE
    /\ ops = <<>>
    /\ lastOp = NoOp

\* createWallet up to its await: the address is built from the clock reading
\* t of the call.
CallCreateWallet(c, owner, walletType, t) ==
    /\ NextCall(c)
    /\ calls' = [calls EXCEPT ![c] =
                    [@ EXCEPT !.op = "createWallet", !.pc = "insertWallet",
                              !.userId = owner, !.walletType = walletType,
                              !.walletAddress = WalletAddress(owner, walletType, t)]]
    /\ UNCHANGED <<now, digitalWallets, walletTransactions, walletWithdrawals>>
    /\ UNCHANGED chatVars
    /\ UNCHANGED storeVars

\* The insert of createWallet.  wallet_address is UNIQUE: an address that is
\* already stored makes the statement fail and the call throw.
InsertWallet(c) ==
    /\ calls[c].pc = "insertWallet"
    /\ IF \E w \in DOMAIN digitalWallets :
             digitalWallets[w].walletAddress = calls[c].walletAddress
       THEN /\ calls' = [calls EXCEPT ![c] =
                            [@ EXCEPT !.pc = "failed", !.error = "unique_violation"]]
            /\ UNCHANGED digitalWallets
       ELSE /\ digitalWallets' = Append(digitalWallets,
                    [id |-> Len(digitalWallets) + 1,
                     userId |-> calls[c].userId,
                     walletAddress |-> calls[c].walletAddress,
                     walletType |-> calls[c].walletType,
                     balance |-> 0])
            /\ calls' = [calls EXCEPT ![c] =
                            [@ EXCEPT !.pc = "done", !.walletId = Len(digitalWallets) + 1]]
    /\ UNCHANGED <<now, walletTransactions, walletWithdrawals>>
    /\ UNCHANGED chatVars
    /\ UNCHANGED storeVars

\* addWalletTransaction up to its first await (the balance read).
CallAddWalletTransaction(c, walletId, transactionType, amount) ==
    /\ NextCall(c)
    /\ calls' = [calls EXCEPT ![c] =
                    [@ EXCEPT !.op = "addWalletTransaction", !.pc = "readBalance",
                              !.walletId = walletId,
                              !.transactionType = transactionType,
                              !.amount = amount,
                              !.sourceType = "deposit",
                              !.status = "completed"]]
    /\ UNCHANGED <<now, digitalWallets, walletTransactions, walletWithdrawals>>
    /\ UNCHANGED chatVars
    /\ UNCHANGED storeVars

\* updateWalletBalance up to its first await (the balance read).
CallUpdateWalletBalance(c, walletId, amount, transactionType) ==
    /\ NextCall(c)
    /\ calls' = [calls EXCEPT ![c] =
                    [@ EXCEPT !.op = "updateWalletBalance", !.pc = "readBalance",
                              !.walletId = walletId,
                              !.transactionType = transactionType,
                              !.amount = amount]]
    /\ UNCHANGED <<now, digitalWallets, walletTransactions, walletWithdrawals>>
    /\ UNCHANGED chatVars
    /\ UNCHANGED storeVars

\* createWithdrawal up to its first await (the withdrawal insert).
CallCreateWithdrawal(c, walletId, amount, fee) ==
    /\ NextCall(c)
    /\ calls' = [calls EXCEPT ![c] =
                    [@ EXCEPT !.op = "createWithdrawal", !.pc = "insertWithdrawal",
                              !.walletId = walletId,
                              !.amount = amount,
                              !.transactionFee = fee,
                              !.netAmount = NetAmount(amount, fee)]]
    /\ UNCHANGED <<now, digitalWallets, walletTransactions, walletWithdrawals>>
    /\ UNCHANGED chatVars
    /\ UNCHANGED storeVars

\* The insert of createWithdrawal, then the call of addWalletTransaction for
\* the debit, up to its balance read.  wallet_id REFERENCES digital_wallets.
InsertWithdrawal(c) ==
    /\ calls[c].pc = "insertWithdrawal"
    /\ IF calls[c].walletId \notin DOMAIN digitalWallets
       THEN /\ calls' = [calls EXCEPT ![c] =
                            [@ EXCEPT !.pc = "failed", !.error = "foreign_key_violation"]]
            /\ UNCHANGED walletWithdrawals
       ELSE /\ walletWithdrawals' = Append(walletWithdrawals,
                    [id |-> Len(walletWithdrawals) + 1,
                     walletId |-> calls[c].walletId,
                     amount |-> calls[c].amount,
                     status |-> "pending",
                     transactionFee |-> FeeOrZero(calls[c].transactionFee),
                     netAmount |-> calls[c].netAmount])
            /\ calls' = [calls EXCEPT ![c] =
                            [@ EXCEPT !.pc = "readBalance",
                                      !.withdrawalId = Len(walletWithdrawals) + 1,
                                      !.transactionType = "debit",
                                      !.sourceType = "withdrawal",
                                      !.sourceId = Len(walletWithdrawals) + 1,
                                      !.status = "pending"]]
    /\ UNCHANGED <<now, digitalWallets, walletTransactions>>
    /\ UNCHANGED chatVars
    /\ UNCHANGED storeVars

\* The new balance a call computes from the balance it read.
NewBalance(op, currentBalance, transactionType, amount) ==
    IF op = "updateWalletBalance"
    THEN DirectNewBalance(currentBalance, transactionType, amount)
    ELSE LedgerNewBalance(currentBalance, transactionType, amount)

\* The awaited getWalletBalance of addWalletTransaction and of
\* updateWalletBalance, and the computation of the new balance that follows.
ReadBalance(c) ==
    /\ calls[c].pc = "readBalance"
    /\ LET call == calls[c]
           cur == GetWalletBalance(call.walletId) IN
       calls' = [calls EXCEPT ![c] =
                    [call EXCEPT !.currentBalance = cur,
                                 !.newBalance = NewBalance(call.op, cur, call.transactionType,
                                                           call.amount),
                                 !.pc = IF call.op = "updateWalletBalance"
                                        THEN "updateBalance" ELSE "insertTransaction"]]
    /\ UNCHANGED <<now, digitalWallets, walletTransactions, walletWithdrawals>>
    /\ UNCHANGED chatVars
    /\ UNCHANGED storeVars

\* The ledger row addWalletTransaction inserts.
LedgerRow(call, id) ==
    [id |-> id,
     walletId |-> call.walletId,
     transactionType |-> call.transactionType,
     amount |-> call.amount,
     sourceType |-> call.sourceType,
     sourceId |-> call.sourceId,
     status |-> call.status,
     balanceAfter |-> call.newBalance]

\* The ledger insert of addWalletTransaction.  wallet_id REFERENCES
\* digital_wallets.
InsertTransaction(c) ==
    /\ calls[c].pc = "insertTransaction"
    /\ IF calls[c].walletId \notin DOMAIN digitalWallets
       THEN /\ calls' = [calls EXCEPT ![c] =
                            [@ EXCEPT !.pc = "failed", !.error = "foreign_key_violation"]]
            /\ UNCHANGED walletTransactions
       ELSE /\ walletTransactions' = Append(walletTransactions,
                    LedgerRow(calls[c], Len(walletTransactions) + 1))
            /\ calls' = [calls EXCEPT ![c] =
                            [@ EXCEPT !.pc = "updateBalance",
                                      !.txnId = Len(walletTransactions) + 1]]
    /\ UNCHANGED <<now, digitalWallets, walletWithdrawals>>
    /\ UNCHANGED chatVars
    /\ UNCHANGED storeVars

\* An UPDATE that applies the call's change to the balance stored at the time
\* of the write (SET balance = balance + delta).
BalanceToStoreIncrement(call) ==
    GetWalletBalance(call.walletId) + (call.newBalance - call.currentBalance)

\* The balance the UPDATE of a call stores on the wallet row.
BalanceToStore(call) == call.newBalance

\* The UPDATE of digital_wallets that ends addWalletTransaction and
\* updateWalletBalance: it stores the balance computed from the earlier read.
\* No row matches a wallet id that does not exist.
UpdateBalance(c) ==
    /\ calls[c].pc = "updateBalance"
    /\ digitalWallets' =
          IF calls[c].walletId \in DOMAIN digitalWallets
          THEN [digitalWallets EXCEPT ![calls[c].walletId].balance = BalanceToStore(calls[c])]
          ELSE digitalWallets
    /\ calls' = [calls EXCEPT ![c].pc = "done"]
    /\ UNCHANGED <<now, walletTransactions, walletWithdrawals>>
    /\ UNCHANGED chatVars
    /\ UNCHANGED storeVars

\* An awaited database statement is rejected (connection lost, statement
\* timeout) before it takes effect: the call throws at that await.  No
\* storage method catches, and none runs inside a transaction.
StatementRejected(c) ==
    /\ InFlight(c)
    /\ calls' = [calls EXCEPT ![c] = [@ EXCEPT !.pc = "failed", !.error = "rejected"]]
    /\ UNCHANGED <<now, digitalWallets, walletTransactions, walletWithdrawals>>
    /\ UNCHANGED chatVars
    /\ UNCHANGED storeVars

---------------------------------------------------------------------------
(* Community chat broadcaster *)

\* ws.send(frame) on connection c: the frame goes out when the socket is
\* open and is dropped otherwise.
Send(rs, c, frame) == IF rs[c] = "open" THEN <<frame>> ELSE <<>>

\* Registry keys whose ConnectedUser holds connection c.
KeysOf(registry, c) == {k \in DOMAIN registry : registry[k].ws = c}

\* n copies of a frame.
Copies(n, frame) == [i \in 1..n |-> frame]

\* broadcast(message, excludeUserId): one send per registry entry whose key is
\* not excluded and whose socket is open; the frames connection c receives.
Broadcast(registry, rs, exclude, frame, c) ==
    IF rs[c] = "open"
    THEN Copies(Cardinality({k \in KeysOf(registry, c) : k # exclude}), frame)
    ELSE <<>>

\* A Map without key k.
MapDelete(registry, k) == [j \in DOMAIN registry \ {k} |-> registry[j]]

\* A Map with key k set to v.
MapSet(registry, k, v) == [j \in DOMAIN registry \cup {k} |-> IF j = k THEN v ELSE registry[j]]

\* The registry entries whose username is the joining username (the loop of
\* the join handler stops at the first one; keys are usernames, so there is at
\* most one).
ExistingFor(registry, username) ==
    {k \in DOMAIN registry : registry[k].username = username}

\* A join handler that leaves the entry of an already registered username as
\* it is.
JoinRegistryKeepsExisting(registry, c, username, userType) ==
    IF ExistingFor(registry, username) # {} THEN registry
    ELSE MapSet(registry, username,
                [id |-> username, username |-> username, userType |-> userType, ws |-> c])

\* The registry after the join handler: the existing entry of the username
\* deleted, then the entry of the new connection set.
JoinRegistry(registry, c, username, userType) ==
    LET existing == ExistingFor(registry, username)
        removed == IF existing = {} THEN registry
                   ELSE MapDelete(registry, CHOOSE k \in existing : TRUE)
    IN MapSet(removed, username,
              [id |-> username, username |-> username, userType |-> userType, ws |-> c])

\* ws.readyState after existingUser.ws.close(): an open socket starts its
\* closing handshake, any other is left as it is.
AfterClose(rs, c) == IF rs[c] = "open" THEN [rs EXCEPT ![c] = "closing"] ELSE rs

\* A connection can still deliver frames to its message handler.
Receiving(c) == readyState[c] \in {"open", "closing"}

\* wss.on('connection'): a new socket, its closure's userId null.
Connection(c) ==
    /\ readyState[c] = "none"
    /\ IF c = 1 THEN TRUE ELSE readyState[c - 1] # "none"
    /\ readyState' = [readyState EXCEPT ![c] = "open"]
    /\ userId' = [userId EXCEPT ![c] = Null]
    /\ sent' = [x \in Conns |-> <<>>]
    /\ lastEvent' = [NoEvent EXCEPT !.kind = "connection", !.conn = c]
    /\ UNCHANGED <<now, connectedUsers, welcomeMessagesSent, timers>>
    /\ UNCHANGED walletVars
    /\ UNCHANGED storeVars

\* A join_community frame on connection c.  name and type are the frame's
\* username and userType (Null when missing), fallback the name the
\* Math.random() default draws.
JoinCommunity(c, name, type, fallback) ==
    /\ Receiving(c)
    /\ LET username == IF name = Null THEN fallback ELSE name
           userType == IF type = Null THEN "entrepreneur" ELSE type
           existing == ExistingFor(connectedUsers, username)
           evicted == IF existing = {} THEN NoConn
                      ELSE connectedUsers[CHOOSE k \in existing : TRUE].ws
           rs == IF evicted = NoConn THEN readyState ELSE AfterClose(readyState, evicted)
           registry == JoinRegistry(connectedUsers, c, username, userType)
           user == registry[username]
           welcome == username \notin welcomeMessagesSent
       IN /\ userId' = [userId EXCEPT ![c] = username]
          /\ readyState' = rs
          /\ connectedUsers' = registry
          /\ welcomeMessagesSent' = welcomeMessagesSent \cup {username}
          /\ timers' = IF welcome
                       THEN Append(timers, [kind |-> "welcome_follow_up", conn |-> c,
                                            username |-> username,
                                            due |-> now + WelcomeFollowUpDelay])
                       ELSE timers
          /\ sent' = [x \in Conns |->
                        (IF x = c /\ welcome THEN Send(rs, c, WelcomeFrame(now)) ELSE <<>>)
                        \o Broadcast(registry, rs, username, UserJoinedFrame(user), x)
                        \o (IF x = c THEN Send(rs, c, UsersUpdateFrame(registry)) ELSE <<>>)]
          /\ lastEvent' = [kind |-> "join_community", conn |-> c, username |-> username,
                           evicted |-> evicted]
    /\ UNCHANGED now
    /\ UNCHANGED walletVars
    /\ UNCHANGED storeVars

\* A community_message frame on connection c.
CommunityMessage(c, text) ==
    /\ Receiving(c)
    /\ sent' = IF userId[c] # Null /\ userId[c] \in DOMAIN connectedUsers
               THEN [x \in Conns |->
                        Broadcast(connectedUsers, readyState, Null,
                                  ChatFrame(connectedUsers[userId[c]], text, now), x)]
               ELSE [x \in Conns |-> <<>>]
    /\ lastEvent' = [kind |-> "community_message", conn |-> c, username |-> userId[c],
                     evicted |-> NoConn]
    /\ UNCHANGED <<now, readyState, userId, connectedUsers, welcomeMessagesSent, timers>>
    /\ UNCHANGED walletVars
    /\ UNCHANGED storeVars

\* The registry after the close handler of a connection whose userId is id.
CloseRegistry(registry, id) ==
    IF id # Null /\ id \in DOMAIN registry THEN MapDelete(registry, id) ELSE registry

\* ws.on('close') of connection c: the socket is closed, by the peer or at
\* the end of a closing handshake.
Close(c) ==
    /\ readyState[c] \in {"open", "closing", "errored"}
    /\ LET rs == [readyState EXCEPT ![c] = "closed"]
           registered == userId[c] # Null /\ userId[c] \in DOMAIN connectedUsers
           registry == CloseRegistry(connectedUsers, userId[c])
       IN /\ readyState' = rs
          /\ connectedUsers' = registry
          /\ timers' = IF registered
                       THEN Append(timers, [kind |-> "welcome_forget", conn |-> c,
                                            username |-> connectedUsers[userId[c]].username,
                                            due |-> now + WelcomeForgetDelay])
                       ELSE timers
          /\ sent' = IF registered
                     THEN [x \in Conns |->
                              Broadcast(registry, rs, Null,
                                        UserLeftFrame(userId[c],
                                                      connectedUsers[userId[c]].username), x)]
                     ELSE [x \in Conns |-> <<>>]
          /\ lastEvent' = [kind |-> "close", conn |-> c, username |-> userId[c],
                           evicted |-> NoConn]
    /\ UNCHANGED <<now, userId, welcomeMessagesSent>>
    /\ UNCHANGED walletVars
    /\ UNCHANGED storeVars

\* The registry after the error handler of a connection whose userId is id.
ErrorRegistry(registry, id) ==
    IF id # Null /\ id \in DOMAIN registry THEN MapDelete(registry, id) ELSE registry

\* ws.on('error') of connection c: the socket reported a protocol error; it
\* delivers no further frame and its close event follows.
Error(c) ==
    /\ readyState[c] \in {"open", "closing"}
    /\ readyState' = [readyState EXCEPT ![c] = "errored"]
    /\ connectedUsers' = ErrorRegistry(connectedUsers, userId[c])
    /\ sent' = [x \in Conns |-> <<>>]
    /\ lastEvent' = [kind |-> "error", conn |-> c, username |-> userId[c],
                     evicted |-> NoConn]
    /\ UNCHANGED <<now, userId, welcomeMessagesSent, timers>>
    /\ UNCHANGED walletVars
    /\ UNCHANGED storeVars

\* A sequence without its i-th element.
RemoveAt(seq, i) == [j \in 1..(Len(seq) - 1) |-> IF j < i THEN seq[j] ELSE seq[j + 1]]

\* A pending timer the event loop can run now: it is due and no pending timer
\* is due earlier.
CanFire(i) ==
    /\ timers[i].due <= now
    /\ \A j \in DOMAIN timers : timers[j].due >= timers[i].due

\* The 2 s timer of the join handler: the second welcome message, when the
\* socket is still open.
WelcomeFollowUp(i) ==
    /\ i \in DOMAIN timers
    /\ timers[i].kind = "welcome_follow_up"
    /\ CanFire(i)
    /\ sent' = [x \in Conns |->
                  IF x = timers[i].conn
                  THEN Send(readyState, x, WelcomeFollowUpFrame(now)) ELSE <<>>]
    /\ timers' = RemoveAt(timers, i)
    /\ lastEvent' = [kind |-> "welcome_follow_up", conn |-> timers[i].conn,
                     username |-> timers[i].username, evicted |-> NoConn]
    /\ UNCHANGED <<now, readyState, userId, connectedUsers, welcomeMessagesSent>>
    /\ UNCHANGED walletVars
    /\ UNCHANGED storeVars

\* The 5 min timer of the close handler: the welcome marker of the username
\* is deleted.
WelcomeForget(i) ==
    /\ i \in DOMAIN timers
    /\ timers[i].kind = "welcome_forget"
    /\ CanFire(i)
    /\ welcomeMessagesSent' = welcomeMessagesSent \ {timers[i].username}
    /\ timers' = RemoveAt(timers, i)
    /\ sent' = [x \in Conns |-> <<>>]
    /\ lastEvent' = [kind |-> "welcome_forget", conn |-> timers[i].conn,
                     username |-> timers[i].username, evicted |-> NoConn]
    /\ UNCHANGED <<now, readyState, userId, connectedUsers>>
    /\ UNCHANGED walletVars
    /\ UNCHANGED storeVars

\* The instants the clock of the model can advance to.
NextInstants == {now + LongStep} \cup {timers[i].due : i \in DOMAIN timers}

\* Time passes up to instant t: the clock does not pass the due time of a
\* pending timer without the timer running.
TimePasses(t) ==
    /\ t > now
    /\ t <= MaxTime
    /\ \A i \in DOMAIN timers : t <= timers[i].due
    /\ now' = t
    /\ sent' = [x \in Conns |-> <<>>]
    /\ lastEvent' = NoEvent
    /\ UNCHANGED <<readyState, userId, connectedUsers, welcomeMessagesSent, timers>>
    /\ UNCHANGED walletVars
    /\ UNCHANGED storeVars

NextChat ==
    \/ \E c \in ChatConns : Connection(c)
    \/ \E c \in Conns, name \in Usernames \cup {Null}, type \in UserTypes \cup {Null},
          fallback \in RandomUsernames :
          JoinCommunity(c, name, type, fallback)
    \/ \E c \in Conns, text \in Texts : CommunityMessage(c, text)
    \/ \E c \in Conns : Close(c)
    \/ \E c \in Conns : Error(c)
    \/ \E i \in DOMAIN timers : WelcomeFollowUp(i)
    \/ \E i \in DOMAIN timers : WelcomeForget(i)
    \/ \E t \in NextInstants : TimePasses(t)

SpecChat == Init /\ [][NextChat]_vars

\* One participant that joins, leaves and rejoins on up to three connections,
\* and the timers.
NextRejoin ==
    \/ \E c \in Conns : Connection(c)
    \/ \E c \in Conns, name \in Usernames, fallback \in RandomUsernames :
          JoinCommunity(c, name, Null, fallback)
    \/ \E c \in Conns : Close(c)
    \/ \E i \in DOMAIN timers : WelcomeFollowUp(i)
    \/ \E i \in DOMAIN timers : WelcomeForget(i)
    \/ \E t \in NextInstants : TimePasses(t)

SpecRejoin == Init /\ [][NextRejoin]_vars

---------------------------------------------------------------------------
(* Specifications of the wallet subsystem *)

TransactionTypes == {"credit", "debit"}

\* All wallet operations, interleaving at their await points; any awaited
\* statement may be rejected.
Next ==
    \/ \E c \in CallIds, u \in UserIds, ty \in WalletTypes, t \in ClockReadings :
          CallCreateWallet(c, u, ty, t)
    \/ \E c \in CallIds, w \in WalletIds, ty \in TransactionTypes, a \in Amounts :
          CallAddWalletTransaction(c, w, ty, a)
    \/ \E c \in CallIds, w \in WalletIds, a \in Amounts, f \in Fees :
          CallCreateWithdrawal(c, w, a, f)
    \/ \E c \in CallIds, w \in WalletIds, ty \in TransactionTypes, a \in Amounts :
          CallUpdateWalletBalance(c, w, a, ty)
    \/ \E c \in CallIds : InsertWallet(c)
    \/ \E c \in CallIds : InsertWithdrawal(c)
    \/ \E c \in CallIds : ReadBalance(c)
    \/ \E c \in CallIds : InsertTransaction(c)
    \/ \E c \in CallIds : UpdateBalance(c)
    \/ \E c \in CallIds : StatementRejected(c)

Spec == Init /\ [][Next]_vars

\* createWallet and addWalletTransaction calls interleaving at their await
\* points, every statement succeeding.
NextRace ==
    \/ \E c \in CallIds, u \in UserIds, ty \in WalletTypes, t \in ClockReadings :
          CallCreateWallet(c, u, ty, t)
    \/ \E c \in CallIds, w \in WalletIds, ty \in TransactionTypes, a \in Amounts :
          CallAddWalletTransaction(c, w, ty, a)
    \/ \E c \in CallIds : InsertWallet(c)
    \/ \E c \in CallIds : ReadBalance(c)
    \/ \E c \in CallIds : InsertTransaction(c)
    \/ \E c \in CallIds : UpdateBalance(c)

SpecRace == Init /\ [][NextRace]_vars

\* createWallet and addWalletTransaction calls, each call issued only when
\* every earlier call has returned or thrown.
NextLedgerSeq ==
    \/ \E c \in CallIds, u \in UserIds, ty \in WalletTypes, t \in ClockReadings :
          Quiescent /\ CallCreateWallet(c, u, ty, t)
    \/ \E c \in CallIds, w \in WalletIds, ty \in TransactionTypes, a \in Amounts :
          Quiescent /\ CallAddWalletTransaction(c, w, ty, a)
    \/ \E c \in CallIds : InsertWallet(c)
    \/ \E c \in CallIds : ReadBalance(c)
    \/ \E c \in CallIds : InsertTransaction(c)
    \/ \E c \in CallIds : UpdateBalance(c)

SpecLedgerSeq == Init /\ [][NextLedgerSeq]_vars

\* All four wallet operations, each call issued only when every earlier call
\* has returned or thrown, every statement succeeding.
NextWalletSeq ==
    \/ \E c \in CallIds, u \in UserIds, ty \in WalletTypes, t \in ClockReadings :
          Quiescent /\ CallCreateWallet(c, u, ty, t)
    \/ \E c \in CallIds, w \in WalletIds, ty \in TransactionTypes, a \in Amounts :
          Quiescent /\ CallAddWalletTransaction(c, w, ty, a)
    \/ \E c \in CallIds, w \in WalletIds, a \in Amounts, f \in Fees :
          Quiescent /\ CallCreateWithdrawal(c, w, a, f)
    \/ \E c \in CallIds, w \in WalletIds, ty \in TransactionTypes, a \in Amounts :
          Quiescent /\ CallUpdateWalletBalance(c, w, a, ty)
    \/ \E c \in CallIds : InsertWallet(c)
    \/ \E c \in CallIds : InsertWithdrawal(c)
    \/ \E c \in CallIds : ReadBalance(c)
    \/ \E c \in CallIds : InsertTransaction(c)
    \/ \E c \in CallIds : UpdateBalance(c)

SpecWalletSeq == Init /\ [][NextWalletSeq]_vars

\* createWallet, addWalletTransaction and createWithdrawal calls, each call
\* issued only when every earlier call has returned or thrown, every statement
\* succeeding.
NextWithdrawalSeq ==
    \/ \E c \in CallIds, u \in UserIds, ty \in WalletTypes, t \in ClockReadings :
          Quiescent /\ CallCreateWallet(c, u, ty, t)
    \/ \E c \in CallIds, w \in WalletIds, ty \in TransactionTypes, a \in Amounts :
          Quiescent /\ CallAddWalletTransaction(c, w, ty, a)
    \/ \E c \in CallIds, w \in WalletIds, a \in Amounts, f \in Fees :
          Quiescent /\ CallCreateWithdrawal(c, w, a, f)
    \/ \E c \in CallIds : InsertWallet(c)
    \/ \E c \in CallIds : InsertWithdrawal(c)
    \/ \E c \in CallIds : ReadBalance(c)
    \/ \E c \in CallIds : InsertTransaction(c)
    \/ \E c \in CallIds : UpdateBalance(c)

SpecWithdrawalSeq == Init /\ [][NextWithdrawalSeq]_vars

\* createWallet, addWalletTransaction and updateWalletBalance calls, each call
\* issued only when every earlier call has returned or thrown, every statement
\* succeeding.
NextBalanceSeq ==
    \/ \E c \in CallIds, u \in UserIds, ty \in WalletTypes, t \in ClockReadings :
          Quiescent /\ CallCreateWallet(c, u, ty, t)
    \/ \E c \in CallIds, w \in WalletIds, ty \in TransactionTypes, a \in Amounts :
          Quiescent /\ CallAddWalletTransaction(c, w, ty, a)
    \/ \E c \in CallIds, w \in WalletIds, ty \in TransactionTypes, a \in Amounts :
          Quiescent /\ CallUpdateWalletBalance(c, w, a, ty)
    \/ \E c \in CallIds : InsertWallet(c)
    \/ \E c \in CallIds : ReadBalance(c)
    \/ \E c \in CallIds : InsertTransaction(c)
    \/ \E c \in CallIds : UpdateBalance(c)

SpecBalanceSeq == Init /\ [][NextBalanceSeq]_vars

---------------------------------------------------------------------------
(* Properties of the wallet subsystem *)

\* The calls issued so far, and the most recent of them.
Issued == {c \in CallIds : calls[c].pc # "idle"}
IsLatest(c) == c \in Issued /\ \A d \in Issued : d <= c

\* Ledger rows of a wallet.
RowsOf(walletId) ==
    {i \in DOMAIN walletTransactions : walletTransactions[i].walletId = walletId}

\* Calls other than c1 and c2 that were issued to change wallet w.
OtherCallsOn(w, c1, c2) ==
    {c \in CallIds \ {c1, c2} :
        /\ calls[c].walletId = w
        /\ calls[c].op \in {"addWalletTransaction", "createWithdrawal", "updateWalletBalance"}}

\* C1: with createWallet and addWalletTransaction calls that each run to
\* completion before the next one starts, whenever no call is in progress the
\* balance of every wallet equals the sum of the signed amounts (credit = +,
\* debit = -) of the ledger rows of that wallet.
C1_SequentialLedgerSumEqualsBalance ==
    Quiescent =>
        \A w \in DOMAIN digitalWallets : digitalWallets[w].balance = LedgerSum(w)

\* C1 witness: a wallet that has received a credit and a debit, one after the
\* other, and holds a non-zero balance.
C1_Witness ==
    /\ Quiescent
    /\ \E w \in DOMAIN digitalWallets :
          /\ \E i \in RowsOf(w) : walletTransactions[i].transactionType = "credit"
          /\ \E i \in RowsOf(w) : walletTransactions[i].transactionType = "debit"
          /\ digitalWallets[w].balance # 0

\* C2: after any sequence of completed wallet operations of any kind
\* (addWalletTransaction, createWithdrawal, updateWalletBalance), the balance
\* of every wallet equals the sum of the signed amounts of its ledger rows.
C2_AnyOperationLedgerSumEqualsBalance ==
    \A w \in DOMAIN digitalWallets :
        Quiescent => digitalWallets[w].balance = LedgerSum(w)

\* Two addWalletTransaction calls on the same existing wallet that both
\* returned after reading the same starting balance, no other call having
\* been issued to change that wallet.
Raced(c1, c2) ==
    /\ c1 # c2
    /\ calls[c1].op = "addWalletTransaction" /\ calls[c1].pc = "done"
    /\ calls[c2].op = "addWalletTransaction" /\ calls[c2].pc = "done"
    /\ calls[c1].walletId = calls[c2].walletId
    /\ calls[c1].walletId \in DOMAIN digitalWallets
    /\ calls[c1].currentBalance = calls[c2].currentBalance
    /\ OtherCallsOn(calls[c1].walletId, c1, c2) = {}

\* C3: when two addWalletTransaction calls on one wallet interleave so that
\* both read the same starting balance b, both ledger rows are persisted and
\* the wallet balance is b plus the signed amount of only one of them, which
\* differs from the ledger sum: an update is lost.
C3_SameStartingBalanceLosesAnUpdate ==
    \A c1, c2 \in CallIds :
        Raced(c1, c2) =>
            LET w == calls[c1].walletId
                b == calls[c1].currentBalance
                s1 == SignedAmount(walletTransactions[calls[c1].txnId])
                s2 == SignedAmount(walletTransactions[calls[c2].txnId])
            IN /\ calls[c1].txnId \in RowsOf(w)
               /\ calls[c2].txnId \in RowsOf(w)
               /\ calls[c1].txnId # calls[c2].txnId
               /\ digitalWallets[w].balance \in {b + s1, b + s2}
               /\ digitalWallets[w].balance # b + s1 + s2
               /\ digitalWallets[w].balance # LedgerSum(w)

\* C3 witness: two such calls have both returned.
C3_Witness == \E c1, c2 \in CallIds : Raced(c1, c2)

\* C4: the ledger insert and the balance write of addWalletTransaction are
\* one atomic unit: a call that failed leaves no ledger row of its own.
C4_FailedCallLeavesNoLedgerRow ==
    \A c \in CallIds :
        calls[c].pc = "failed" =>
            ~ \E i \in DOMAIN walletTransactions :
                  walletTransactions[i].id = calls[c].txnId

\* Debit ledger rows that belong to a withdrawal.
DebitsOf(withdrawalId) ==
    {i \in DOMAIN walletTransactions :
        /\ walletTransactions[i].sourceType = "withdrawal"
        /\ walletTransactions[i].sourceId = withdrawalId
        /\ walletTransactions[i].transactionType = "debit"}

\* C5: a withdrawal and its debit ledger entry are created together or not at
\* all: a createWithdrawal call that failed leaves no withdrawal row, and
\* whenever no call is in progress every withdrawal row has exactly one debit
\* ledger row with sourceType 'withdrawal' and its id as sourceId.
C5_WithdrawalAndDebitTogetherOrNotAtAll ==
    /\ \A c \in CallIds :
          (calls[c].op = "createWithdrawal" /\ calls[c].pc = "failed") =>
              ~ \E i \in DOMAIN walletWithdrawals :
                    walletWithdrawals[i].id = calls[c].withdrawalId
    /\ Quiescent =>
          \A i \in DOMAIN walletWithdrawals :
              Cardinality(DebitsOf(walletWithdrawals[i].id)) = 1

\* C6: a createWithdrawal call that returned has stored a withdrawal whose
\* netAmount is amount - transactionFee (fee 0 when absent) and exactly one
\* ledger row for it: a pending debit of the full amount on that wallet whose
\* balanceAfter is the balance before the call less the full amount; no call
\* has inserted more than one ledger row; and when the call has just
\* returned, the wallet balance is the balance before the call less the full
\* amount.
C6_WithdrawalRoundTrip ==
    /\ Len(walletTransactions) = Cardinality({c \in CallIds : calls[c].txnId # 0})
    /\ \A c \in CallIds :
          (calls[c].op = "createWithdrawal" /\ calls[c].pc = "done") =>
              LET call == calls[c]
                  wd == walletWithdrawals[call.withdrawalId]
                  fee == IF call.transactionFee = Absent THEN 0 ELSE call.transactionFee
              IN /\ wd.walletId = call.walletId
                 /\ wd.amount = call.amount
                 /\ wd.netAmount = call.amount - fee
                 /\ DebitsOf(wd.id) = {call.txnId}
                 /\ \A i \in DOMAIN walletTransactions :
                       (walletTransactions[i].sourceType = "withdrawal"
                        /\ walletTransactions[i].sourceId = wd.id) => i = call.txnId
                 /\ walletTransactions[call.txnId].walletId = call.walletId
                 /\ walletTransactions[call.txnId].amount = call.amount
                 /\ walletTransactions[call.txnId].status = "pending"
                 /\ walletTransactions[call.txnId].balanceAfter
                       = call.currentBalance - call.amount
                 /\ IsLatest(c) =>
                       digitalWallets[call.walletId].balance
                         = call.currentBalance - call.amount

\* C6 witness: a withdrawal with a fee has returned on a wallet that held
\* funds, and its balance fell by more than the net amount.
C6_Witness ==
    \E c \in CallIds :
        /\ calls[c].op = "createWithdrawal" /\ calls[c].pc = "done" /\ IsLatest(c)
        /\ calls[c].transactionFee # Absent
        /\ calls[c].currentBalance > 0
        /\ digitalWallets[calls[c].walletId].balance
              # calls[c].currentBalance - calls[c].netAmount

\* A call that returned on an existing wallet.
Returned(c, op, transactionType) ==
    /\ calls[c].op = op
    /\ calls[c].pc = "done"
    /\ calls[c].transactionType = transactionType
    /\ calls[c].walletId \in DOMAIN digitalWallets

\* C7: with b the balance before the call: a ledger debit of a > b leaves the
\* balance and the row's balanceAfter at b - a, a negative value; a direct
\* debit of a > b leaves the balance at 0; a credit of a leaves b + a on
\* both paths.
C7_DebitFloorAsymmetry ==
    \A c \in CallIds :
        LET call == calls[c]
            b == call.currentBalance
            a == call.amount
            balance == digitalWallets[call.walletId].balance
        IN /\ (Returned(c, "addWalletTransaction", "debit") /\ a > b) =>
                 /\ walletTransactions[call.txnId].balanceAfter = b - a
                 /\ IsLatest(c) => (balance = b - a /\ balance < 0)
           /\ (Returned(c, "updateWalletBalance", "debit") /\ a > b) =>
                 (IsLatest(c) => balance = 0)
           /\ Returned(c, "addWalletTransaction", "credit") =>
                 /\ walletTransactions[call.txnId].balanceAfter = b + a
                 /\ IsLatest(c) => balance = b + a
           /\ Returned(c, "updateWalletBalance", "credit") =>
                 (IsLatest(c) => balance = b + a)

\* C7 witness: an overdrawing ledger debit has returned, and an overdrawing
\* direct debit has just returned.
C7_Witness ==
    \E c1, c2 \in CallIds :
        /\ Returned(c1, "addWalletTransaction", "debit")
        /\ calls[c1].amount > calls[c1].currentBalance
        /\ Returned(c2, "updateWalletBalance", "debit")
        /\ calls[c2].amount > calls[c2].currentBalance
        /\ IsLatest(c2)

\* C8: every createWallet call inserts a new wallet: none fails on the unique
\* wallet address, and the address a call has generated differs from the
\* address of every wallet that exists.
C8_GeneratedAddressAlwaysNew ==
    \A c \in CallIds :
        calls[c].op = "createWallet" =>
            /\ calls[c].error # "unique_violation"
            /\ calls[c].pc = "insertWallet" =>
                  \A w \in DOMAIN digitalWallets :
                      digitalWallets[w].walletAddress # calls[c].walletAddress

---------------------------------------------------------------------------
(* Properties of the community chat *)

\* C9: when a join_community frame names a username that is already
\* registered, then once the join handler has run the connection that held
\* the username is no longer open, the registry has exactly one entry for the
\* username, and that entry refers to the connection the frame arrived on.
C9_RejoinReplacesPriorConnection ==
    (lastEvent.kind = "join_community" /\ lastEvent.evicted # NoConn) =>
        /\ readyState[lastEvent.evicted] # "open"
        /\ ExistingFor(connectedUsers, lastEvent.username) = {lastEvent.username}
        /\ connectedUsers[lastEvent.username].ws = lastEvent.conn

\* C9 witness: a second connection has just joined under the username of a
\* connection that was open; the first one is closing, the second one is open.
C9_Witness ==
    /\ lastEvent.kind = "join_community"
    /\ lastEvent.evicted # NoConn
    /\ lastEvent.evicted # lastEvent.conn
    /\ readyState[lastEvent.evicted] = "closing"
    /\ readyState[lastEvent.conn] = "open"
    /\ lastEvent.username \in Usernames

\* A frame is the chat event of the community_message the last handler
\* processed: the sender's username, id and timestamp assigned by the server.
IsChatEvent(frame) ==
    /\ frame.type = "community_message"
    /\ frame.username = lastEvent.username
    /\ frame.id = ToString(now)
    /\ frame.timestamp = now

\* C10: when a community_message frame has been processed on a connection
\* that has joined, every connection with an open socket that is a registry
\* participant, and the sender when its socket is open, has been sent the
\* chat event; a connection whose socket is not open has been sent nothing.
C10_MessageDeliveredToEveryOpenParticipant ==
    (lastEvent.kind = "community_message" /\ lastEvent.username # Null) =>
        /\ \A x \in Conns :
              (/\ readyState[x] = "open"
               /\ (KeysOf(connectedUsers, x) # {} \/ x = lastEvent.conn)) =>
                  \E i \in DOMAIN sent[x] : IsChatEvent(sent[x][i])
        /\ \A x \in Conns : readyState[x] # "open" => sent[x] = <<>>

\* Registry keys a step removes.
RemovedKeys == DOMAIN connectedUsers \ (DOMAIN connectedUsers')

\* C20: a step that handles the close or the error event of a connection
\* removes only registry entries that refer to that connection, and sends a
\* user_left event only for an entry of that connection it removed.
C20_CloseRemovesOnlyOwnEntry ==
    [][lastEvent'.kind \in {"close", "error"} =>
          /\ \A k \in RemovedKeys : connectedUsers[k].ws = lastEvent'.conn
          /\ \A x \in Conns : \A i \in DOMAIN sent'[x] :
                sent'[x][i].type = "user_left" =>
                    \E k \in RemovedKeys :
                        /\ connectedUsers[k].ws = lastEvent'.conn
                        /\ connectedUsers[k].username = sent'[x][i].username]_vars

\* C21: when the close event of a connection is handled, every registry
\* entry that refers to the connection is removed, and a user_left event
\* naming its username is sent to every connection that remains in the
\* registry with an open socket.
C21_CloseRemovesEntryAndNotifies ==
    [][lastEvent'.kind = "close" =>
          \A k \in KeysOf(connectedUsers, lastEvent'.conn) :
              /\ k \notin DOMAIN connectedUsers'
              /\ \A x \in Conns :
                    (readyState'[x] = "open" /\ KeysOf(connectedUsers', x) # {}) =>
                        \E i \in DOMAIN sent'[x] :
                            /\ sent'[x][i].type = "user_left"
                            /\ sent'[x][i].username = connectedUsers[k].username]_vars

\* Pending timers that will delete the welcome marker of a username: the
\* username was disconnected less than 5 minutes ago.
PendingForgets(username) ==
    {i \in DOMAIN timers : /\ timers[i].kind = "welcome_forget"
                           /\ timers[i].username = username
                           /\ timers[i].due > now}

\* A frame is the first welcome message.
IsWelcome(frame) == frame = WelcomeFrame(frame.timestamp)

\* C22: a join of a username whose registered connection closed less than 5
\* minutes ago is not sent the welcome message.
C22_QuickRejoinNotWelcomedAgain ==
    [][(lastEvent'.kind = "join_community" /\ PendingForgets(lastEvent'.username) # {}) =>
          \A x \in Conns : \A i \in DOMAIN sent'[x] : ~IsWelcome(sent'[x][i])]_vars

\* C23: the welcome marker of a username that is not in the registry has
\* its removal pending, so that it is removed within 5 minutes.
C23_MarkerOfAbsentUserIsForgotten ==
    \A username \in welcomeMessagesSent :
        username \notin DOMAIN connectedUsers =>
            \E i \in DOMAIN timers : /\ timers[i].kind = "welcome_forget"
                                     /\ timers[i].username = username

\* C24: every connection is the ws of at most one registry entry.
C24_ConnectionInAtMostOneEntry ==
    \A c \in Conns : Cardinality(KeysOf(connectedUsers, c)) <= 1

---------------------------------------------------------------------------
(* User operations of MemStorage and of DatabaseStorage.  Each action hands  *)
(* the same call, at the same clock reading, to both backends.               *)

\* MemStorage.getUser
MemGetUser(m, uid) == IF uid \in DOMAIN m.users THEN m.users[uid] ELSE Undefined

\* DatabaseStorage.getUser
DbGetUser(table, uid) == IF uid \in DOMAIN table THEN table[uid] ELSE Undefined

\* MemStorage.createUser: the next id, plan "free" whatever the caller gave.
MemCreateUser(m, insertUser, t) ==
    [m EXCEPT !.users = Append(@, UserRow(m.currentUserId, insertUser.username,
                                         insertUser.email, "free", t)),
              !.currentUserId = @ + 1]

\* username and email are UNIQUE columns of table users.
UsersConflict(table, insertUser) ==
    \E i \in DOMAIN table :
        table[i].username = insertUser.username \/ table[i].email = insertUser.email

\* DatabaseStorage.createUser: the values given, the column defaults for the
\* rest; the insert fails when a unique column would repeat.
DbCreateUser(table, insertUser, t) ==
    IF UsersConflict(table, insertUser) THEN table
    ELSE Append(table, UserRow(Len(table) + 1, insertUser.username, insertUser.email,
                               IF insertUser.plan = Null THEN "starter" ELSE insertUser.plan,
                               t))

\* createUser on both backends.
CreateUser(insertUser, t) ==
    /\ Len(DbCreateUser(users, insertUser, t)) <= MaxUsers
    /\ Len(mem.users) <= MaxUsers
    /\ mem' = MemCreateUser(mem, insertUser, t)
    /\ users' = DbCreateUser(users, insertUser, t)
    /\ lastOp' = [op |-> "createUser", uid |-> Len(users) + 1,
                  memError |-> "none",
                  dbError |-> IF UsersConflict(users, insertUser)
                              THEN "unique_violation" ELSE "none"]
    /\ UNCHANGED <<generatedNames, searchHistory, userProfiles, referralCodes, referrals,
                   initialized, ops>>
    /\ UNCHANGED <<now, walletVars, chatVars, referralStats, digitalProductPurchases>>

\* MemStorage.updateUserUsage: on a new calendar day lastUsageReset becomes
\* the current time; dailyUsage is set to the usage given.
MemUpdateUserUsage(m, uid, usage, t) ==
    IF uid \in DOMAIN m.users
    THEN [m EXCEPT !.users[uid].lastUsageReset = IF SameDay(t, @) THEN @ ELSE t,
                   !.users[uid].dailyUsage = usage]
    ELSE m

\* DatabaseStorage.updateUserUsage: SET daily_usage = usage.
DbUpdateUserUsage(table, uid, usage, t) ==
    IF uid \in DOMAIN table THEN [table EXCEPT ![uid].dailyUsage = usage] ELSE table

\* updateUserUsage on both backends.
UpdateUserUsage(uid, usage, t) ==
    /\ mem' = MemUpdateUserUsage(mem, uid, usage, t)
    /\ users' = DbUpdateUserUsage(users, uid, usage, t)
    /\ lastOp' = [op |-> "updateUserUsage", uid |-> uid,
                  memError |-> "none", dbError |-> "none"]
    /\ UNCHANGED <<generatedNames, searchHistory, userProfiles, referralCodes, referrals,
                   initialized, ops>>
    /\ UNCHANGED <<now, walletVars, chatVars, referralStats, digitalProductPurchases>>

\* MemStorage.resetDailyUsage
MemResetDailyUsage(m, uid, t) ==
    IF uid \in DOMAIN m.users
    THEN [m EXCEPT !.users[uid].dailyUsage = 0, !.users[uid].lastUsageReset = t]
    ELSE m

\* DatabaseStorage.resetDailyUsage
DbResetDailyUsage(table, uid, t) ==
    IF uid \in DOMAIN table
    THEN [table EXCEPT ![uid].dailyUsage = 0, ![uid].lastUsageReset = t]
    ELSE table

\* resetDailyUsage on both backends.
ResetDailyUsage(uid, t) ==
    /\ mem' = MemResetDailyUsage(mem, uid, t)
    /\ users' = DbResetDailyUsage(users, uid, t)
    /\ lastOp' = [op |-> "resetDailyUsage", uid |-> uid,
                  memError |-> "none", dbError |-> "none"]
    /\ UNCHANGED <<generatedNames, searchHistory, userProfiles, referralCodes, referrals,
                   initialized, ops>>
    /\ UNCHANGED <<now, walletVars, chatVars, referralStats, digitalProductPurchases>>

\* The counter a feature increments.
FeatureCount(row, feature) ==
    IF feature = "brandAnalysis" THEN row.brandAnalysisUsage ELSE row.nameImprovementUsage

\* MemStorage.updatePremiumFeatureUsage
MemUpdatePremiumFeatureUsage(m, uid, feature) ==
    IF uid \notin DOMAIN m.users THEN m
    ELSE IF feature = "brandAnalysis"
         THEN [m EXCEPT !.users[uid].brandAnalysisUsage = @ + 1]
         ELSE IF feature = "nameImprovement"
              THEN [m EXCEPT !.users[uid].nameImprovementUsage = @ + 1]
              ELSE m

\* DatabaseStorage.updatePremiumFeatureUsage
DbUpdatePremiumFeatureUsage(table, uid, feature) ==
    IF uid \notin DOMAIN table THEN table
    ELSE IF feature = "brandAnalysis"
         THEN [table EXCEPT ![uid].brandAnalysisUsage = @ + 1]
         ELSE [table EXCEPT ![uid].nameImprovementUsage = @ + 1]

\* updatePremiumFeatureUsage on both backends.
UpdatePremiumFeatureUsage(uid, feature) ==
    /\ IF uid \in DOMAIN mem.users
       THEN FeatureCount(mem.users[uid], feature) < MaxFeatureUses ELSE TRUE
    /\ IF uid \in DOMAIN users
       THEN FeatureCount(users[uid], feature) < MaxFeatureUses ELSE TRUE
    /\ mem' = MemUpdatePremiumFeatureUsage(mem, uid, feature)
    /\ users' = DbUpdatePremiumFeatureUsage(users, uid, feature)
    /\ lastOp' = [op |-> "updatePremiumFeatureUsage", uid |-> uid,
                  memError |-> "none", dbError |-> "none"]
    /\ UNCHANGED <<generatedNames, searchHistory, userProfiles, referralCodes, referrals,
                   initialized, ops>>
    /\ UNCHANGED <<now, walletVars, chatVars, referralStats, digitalProductPurchases>>

\* MemStorage.updateUserStripeInfo: throws for an unknown user; stores both
\* ids and makes the plan premium.
MemUpdateUserStripeInfo(m, uid, customerId, subscriptionId) ==
    IF uid \in DOMAIN m.users
    THEN [m EXCEPT !.users[uid].stripeCustomerId = customerId,
                   !.users[uid].stripeSubscriptionId = subscriptionId,
                   !.users[uid].plan = "premium"]
    ELSE m

\* DatabaseStorage.updateUserStripeInfo: stores both ids.
DbUpdateUserStripeInfo(table, uid, customerId, subscriptionId) ==
    IF uid \in DOMAIN table
    THEN [table EXCEPT ![uid].stripeCustomerId = customerId,
                       ![uid].stripeSubscriptionId = subscriptionId]
    ELSE table

\* updateUserStripeInfo on both backends.
UpdateUserStripeInfo(uid, customerId, subscriptionId) ==
    /\ mem' = MemUpdateUserStripeInfo(mem, uid, customerId, subscriptionId)
    /\ users' = DbUpdateUserStripeInfo(users, uid, customerId, subscriptionId)
    /\ lastOp' = [op |-> "updateUserStripeInfo", uid |-> uid,
                  memError |-> IF uid \in DOMAIN mem.users THEN "none" ELSE "User not found",
                  dbError |-> "none"]
    /\ UNCHANGED <<generatedNames, searchHistory, userProfiles, referralCodes, referrals,
                   initialized, ops>>
    /\ UNCHANGED <<now, walletVars, chatVars, referralStats, digitalProductPurchases>>

\* getUser on both backends.
GetUser(uid) ==
    /\ lastOp' = [op |-> "getUser", uid |-> uid,
                  memResult |-> MemGetUser(mem, uid), dbResult |-> DbGetUser(users, uid)]
    /\ UNCHANGED <<mem, users, generatedNames, searchHistory, userProfiles, referralCodes,
                   referrals, initialized, ops>>
    /\ UNCHANGED <<now, walletVars, chatVars, referralStats, digitalProductPurchases>>

NextUsers ==
    \/ \E insertUser \in InsertUsers, t \in Instants : CreateUser(insertUser, t)
    \/ \E uid \in UserRefs, usage \in Usages, t \in Instants : UpdateUserUsage(uid, usage, t)
    \/ \E uid \in UserRefs, t \in Instants : ResetDailyUsage(uid, t)
    \/ \E uid \in UserRefs, feature \in Features : UpdatePremiumFeatureUsage(uid, feature)
    \/ \E uid \in UserRefs, customerId \in CustomerIds, subscriptionId \in SubscriptionIds :
          UpdateUserStripeInfo(uid, customerId, subscriptionId)
    \/ \E uid \in UserRefs : GetUser(uid)

SpecUsers == Init /\ [][NextUsers]_vars

---------------------------------------------------------------------------
(* Properties of the user operations *)

\* What updateUserUsage(uid, usage) at time t must leave in a user row that
\* was `before`: dailyUsage = usage; lastUsageReset = t when `before` was last
\* reset on another calendar day, and unchanged otherwise.
UsageUpdated(before, after, usage, t) ==
    /\ after.dailyUsage = usage
    /\ after.lastUsageReset = IF SameDay(t, before.lastUsageReset)
                              THEN before.lastUsageReset ELSE t

\* C15: in each backend, every updateUserUsage(u, n) step on a stored user
\* leaves dailyUsage = n, and leaves lastUsageReset at the current time when
\* the stored lastUsageReset fell on another calendar day, unchanged when it
\* fell on the current day.
C15_UsageUpdateResetsOnNewDay ==
    [][\A uid \in UserRefs, usage \in Usages, t \in Instants :
          UpdateUserUsage(uid, usage, t) =>
              /\ uid \in DOMAIN mem.users =>
                    UsageUpdated(mem.users[uid], mem'.users[uid], usage, t)
              /\ uid \in DOMAIN users =>
                    UsageUpdated(users[uid], users'[uid], usage, t)]_vars

\* No two rows of a user collection share an email or a username.
UniqueUsers(table) ==
    \A i, j \in DOMAIN table :
        i # j => /\ table[i].email # table[j].email
                 /\ table[i].username # table[j].username

\* C17: in each backend, no two users share an email or a username, since a
\* createUser that repeats one fails and stores nothing.
C17_NoTwoUsersShareEmailOrUsername ==
    /\ UniqueUsers(mem.users)
    /\ UniqueUsers(users)

\* What getUser lets a caller observe of a user.
Observed(row) ==
    IF row = Undefined THEN Undefined
    ELSE [plan |-> row.plan, dailyUsage |-> row.dailyUsage,
          lastUsageReset |-> row.lastUsageReset,
          brandAnalysisUsage |-> row.brandAnalysisUsage,
          nameImprovementUsage |-> row.nameImprovementUsage,
          stripeCustomerId |-> row.stripeCustomerId,
          stripeSubscriptionId |-> row.stripeSubscriptionId]

\* C19: after any sequence of user operations given to both backends with the
\* same inputs and clock, getUser returns the same plan, dailyUsage,
\* lastUsageReset, premium-feature counters and Stripe fields in both, and
\* no operation throws in one backend only.
C19_BackendsObservationallyEquivalent ==
    /\ lastOp.op = "getUser" => Observed(lastOp.memResult) = Observed(lastOp.dbResult)
    /\ lastOp.op \in {"createUser", "updateUserUsage", "resetDailyUsage",
                      "updatePremiumFeatureUsage", "updateUserStripeInfo"} =>
          (lastOp.memError = "none") = (lastOp.dbError = "none")

---------------------------------------------------------------------------
(* Referral codes *)

MaxOps == 3

\* A call is issued: its record is appended to the log of calls.
CanIssue == Len(ops) < MaxOps

\* A call on DatabaseStorage that is suspended at an await.
OpInFlight(o) == ops[o].pc \notin {"done", "failed"}

\* No call on DatabaseStorage is suspended at an await.
OpsQuiescent == \A o \in DOMAIN ops : ~OpInFlight(o)

\* `REF${userId}${Date.now().toString(36).toUpperCase()}`
ReferralCodeOf(owner, t) == "REF" \o ToString(owner) \o Base36Upper(t)

\* The row of a referral code.
ReferralCodeRow(id, owner, code) ==
    [id |-> id, userId |-> owner, code |-> code, isActive |-> TRUE]

\* The rows of a collection of referral codes that a user owns.
CodesOf(table, owner) == {i \in DOMAIN table : table[i].userId = owner}

\* MemStorage.createReferralCode: a new code under the next id.
MemCreateReferralCode(owner, t) ==
    /\ CanIssue
    /\ mem' = [mem EXCEPT
                  !.referralCodes = Append(@, ReferralCodeRow(mem.currentReferralCodeId, owner,
                                                              ReferralCodeOf(owner, t))),
                  !.currentReferralCodeId = @ + 1]
    /\ ops' = Append(ops, [op |-> "createReferralCode", backend |-> "mem", pc |-> "done",
                           error |-> "none", owner |-> owner,
                           code |-> ReferralCodeOf(owner, t),
                           result |-> ReferralCodeOf(owner, t)])
    /\ UNCHANGED <<tableVars, initialized, lastOp>>
    /\ UNCHANGED <<now, walletVars, chatVars, referralStats, digitalProductPurchases>>

\* DatabaseStorage.createReferralCode up to its first await (the select).
CallCreateReferralCode(owner) ==
    /\ CanIssue
    /\ ops' = Append(ops, [op |-> "createReferralCode", backend |-> "db",
                           pc |-> "selectExisting", error |-> "none", owner |-> owner,
                           code |-> Null, result |-> Null])
    /\ UNCHANGED <<mem, tableVars, initialized, lastOp>>
    /\ UNCHANGED <<now, walletVars, chatVars, referralStats, digitalProductPurchases>>

\* The select of createReferralCode: an existing code of the user is
\* returned; otherwise the code is built from the clock reading t and the
\* call goes on to its insert.
SelectExistingCode(o, t) ==
    /\ ops[o].op = "createReferralCode" /\ ops[o].pc = "selectExisting"
    /\ LET existing == CodesOf(referralCodes, ops[o].owner) IN
       ops' = [ops EXCEPT ![o] =
                  IF existing # {}
                  THEN [@ EXCEPT !.pc = "done",
                                 !.result = referralCodes[CHOOSE i \in existing :
                                                \A j \in existing : i <= j].code]
                  ELSE [@ EXCEPT !.pc = "insertCode",
                                 !.code = ReferralCodeOf(ops[o].owner, t)]]
    /\ UNCHANGED <<mem, tableVars, initialized, lastOp>>
    /\ UNCHANGED <<now, walletVars, chatVars, referralStats, digitalProductPurchases>>

\* The insert of createReferralCode.  user_id REFERENCES users and code is
\* UNIQUE: the statement fails, and the call throws, when either is violated.
InsertReferralCode(o) ==
    /\ ops[o].op = "createReferralCode" /\ ops[o].pc = "insertCode"
    /\ IF ops[o].owner \notin DOMAIN users
       THEN /\ ops' = [ops EXCEPT ![o] =
                          [@ EXCEPT !.pc = "failed", !.error = "foreign_key_violation"]]
            /\ UNCHANGED referralCodes
       ELSE IF \E i \in DOMAIN referralCodes : referralCodes[i].code = ops[o].code
            THEN /\ ops' = [ops EXCEPT ![o] =
                               [@ EXCEPT !.pc = "failed", !.error = "unique_violation"]]
                 /\ UNCHANGED referralCodes
            ELSE /\ referralCodes' = Append(referralCodes,
                        ReferralCodeRow(Len(referralCodes) + 1, ops[o].owner, ops[o].code))
                 /\ ops' = [ops EXCEPT ![o] = [@ EXCEPT !.pc = "done", !.result = ops[o].code]]
    /\ UNCHANGED <<mem, users, generatedNames, searchHistory, userProfiles, referrals,
                   initialized, lastOp>>
    /\ UNCHANGED <<now, walletVars, chatVars, referralStats, digitalProductPurchases>>

\* createUser and createReferralCode calls on both backends, the calls on
\* DatabaseStorage interleaving at their await points.
NextReferralCodes ==
    \/ \E insertUser \in InsertUsers, t \in Instants : CreateUser(insertUser, t)
    \/ \E owner \in UserRefs, t \in ClockReadings : MemCreateReferralCode(owner, t)
    \/ \E owner \in UserRefs : CallCreateReferralCode(owner)
    \/ \E o \in DOMAIN ops, t \in ClockReadings : SelectExistingCode(o, t)
    \/ \E o \in DOMAIN ops : InsertReferralCode(o)

SpecReferralCodes == Init /\ [][NextReferralCodes]_vars

\* The same calls, each issued only when every earlier call has returned or
\* thrown.
NextReferralCodesSeq ==
    \/ \E insertUser \in InsertUsers, t \in Instants :
          OpsQuiescent /\ CreateUser(insertUser, t)
    \/ \E owner \in UserRefs, t \in ClockReadings :
          OpsQuiescent /\ MemCreateReferralCode(owner, t)
    \/ \E owner \in UserRefs : OpsQuiescent /\ CallCreateReferralCode(owner)
    \/ \E o \in DOMAIN ops, t \in ClockReadings : SelectExistingCode(o, t)
    \/ \E o \in DOMAIN ops : InsertReferralCode(o)

SpecReferralCodesSeq == Init /\ [][NextReferralCodesSeq]_vars

\* The referral codes of a backend.
CodesIn(backend) == IF backend = "mem" THEN mem.referralCodes ELSE referralCodes

\* C13: in each backend, when two createReferralCode calls for the same user
\* have returned one after the other, both returned the same code and
\* exactly one referral code is stored for that user.
C13_CreateReferralCodeIdempotent ==
    \A i, j \in DOMAIN ops :
        (/\ i < j
         /\ ops[i].op = "createReferralCode" /\ ops[j].op = "createReferralCode"
         /\ ops[i].backend = ops[j].backend
         /\ ops[i].owner = ops[j].owner
         /\ ops[i].pc = "done" /\ ops[j].pc = "done") =>
            /\ ops[i].result = ops[j].result
            /\ Cardinality(CodesOf(CodesIn(ops[i].backend), ops[i].owner)) = 1

\* C14: under any interleaving of createReferralCode calls on
\* DatabaseStorage, each user owns at most one referral code row.
C14_AtMostOneCodePerUser ==
    \A owner \in UserRefs : Cardinality(CodesOf(referralCodes, owner)) <= 1

---------------------------------------------------------------------------
(* Referrals *)

MaxReferrals == 2

\* The status strings updateReferralStatus is called with (status: string).
ReferralStatuses == {"pending", "converted", "paid", "expired"}

\* newUserEmail / userEmail of the request bodies.
Emails == {"ana@example.com", "demo@example.com"}

\* email.split('@')[0]
LocalPart(email) ==
    CASE email = "ana@example.com" -> "ana"
      [] email = "demo@example.com" -> "demo"
      [] email = "bo@example.com" -> "bo"

\* referralCode of the request bodies: codes that createReferralCode can
\* have issued and one that it has not.
RequestCodes == {ReferralCodeOf(1, t) : t \in ClockReadings} \cup {"REFX"}

\* subscriptionPlan of the payment-automation body.
SubscriptionPlans == {"premium"}

\* The insertReferral of storage.createReferral.
InsertReferrals ==
    {[referrerId |-> 1, refereeId |-> b, referralCode |-> ReferralCodeOf(1, 0),
      status |-> "pending"] : b \in UserRefs}

\* A conversion_date that is not set.
NoDate == Instant(0, 0, 0, 0)

\* amount of the convert and payment-automation bodies, in cents.
PurchaseAmounts == {0, 1000}

\* parseFloat(amount) * 0.30
Commission(amount) == (amount * 30) \div 100

\* The row of a referral: no conversion date and no commission amount unless
\* they are given.
ReferralRow(id, insertReferral) ==
    [id |-> id, referrerId |-> insertReferral.referrerId,
     refereeId |-> insertReferral.refereeId,
     referralCode |-> insertReferral.referralCode, status |-> insertReferral.status,
     conversionDate |-> NoDate, commissionAmount |-> Absent]

\* The updates of updateReferralStatus applied to a referral: the status,
\* the conversion date if one is given, the commission if it is given and
\* not 0.
ReferralUpdated(row, status, conversionDate, commissionAmount) ==
    [row EXCEPT !.status = status,
                !.conversionDate = IF conversionDate # NoDate THEN conversionDate ELSE @,
                !.commissionAmount = IF commissionAmount \notin {Absent, 0}
                                     THEN commissionAmount ELSE @]

\* MemStorage.createReferral
MemCreateReferral(m, insertReferral) ==
    [m EXCEPT !.referrals = Append(@, ReferralRow(m.currentReferralId, insertReferral)),
              !.currentReferralId = @ + 1]

\* referrer_id and referee_id REFERENCE users.
ReferralKeysMissing(usersTable, insertReferral) ==
    \/ insertReferral.referrerId \notin DOMAIN usersTable
    \/ insertReferral.refereeId \notin DOMAIN usersTable

\* DatabaseStorage.createReferral: the row after the column default.
DbCreateReferral(table, usersTable, insertReferral) ==
    IF ReferralKeysMissing(usersTable, insertReferral)
    THEN table
    ELSE Append(table,
                ReferralRow(Len(table) + 1,
                            [insertReferral EXCEPT
                                !.status = IF @ = Null THEN "pending" ELSE @]))

\* createReferral with the same argument on both backends.
CreateReferral(insertReferral) ==
    /\ Len(mem.referrals) < MaxReferrals
    /\ Len(referrals) < MaxReferrals
    /\ mem' = MemCreateReferral(mem, insertReferral)
    /\ referrals' = DbCreateReferral(referrals, users, insertReferral)
    /\ UNCHANGED <<users, generatedNames, searchHistory, userProfiles, referralCodes,
                   initialized, ops, lastOp>>
    /\ UNCHANGED <<now, walletVars, chatVars, referralStats, digitalProductPurchases>>

\* MemStorage.updateReferralStatus
MemUpdateReferralStatus(m, referralId, status, conversionDate, commissionAmount) ==
    IF \E i \in DOMAIN m.referrals : m.referrals[i].id = referralId
    THEN [m EXCEPT !.referrals =
             [i \in DOMAIN @ |->
                 IF @[i].id = referralId
                 THEN ReferralUpdated(@[i], status, conversionDate, commissionAmount)
                 ELSE @[i]]]
    ELSE m

\* DatabaseStorage.updateReferralStatus
DbUpdateReferralStatus(table, referralId, status, conversionDate, commissionAmount) ==
    [i \in DOMAIN table |->
        IF table[i].id = referralId
        THEN ReferralUpdated(table[i], status, conversionDate, commissionAmount)
        ELSE table[i]]

\* updateReferralStatus(referralId, status) with the same arguments on both
\* backends.
UpdateReferralStatus(referralId, status) ==
    /\ mem' = MemUpdateReferralStatus(mem, referralId, status, NoDate, Absent)
    /\ referrals' = DbUpdateReferralStatus(referrals, referralId, status, NoDate, Absent)
    /\ lastOp' = [op |-> "updateReferralStatus", referralId |-> referralId,
                  memError |-> "none", dbError |-> "none"]
    /\ UNCHANGED <<users, generatedNames, searchHistory, userProfiles, referralCodes,
                   initialized, ops>>
    /\ UNCHANGED <<now, walletVars, chatVars, referralStats, digitalProductPurchases>>

\* DatabaseStorage.getReferralCodeByCode
DbGetReferralCodeByCode(table, code) ==
    IF \E i \in DOMAIN table : table[i].code = code
    THEN table[CHOOSE i \in DOMAIN table : table[i].code = code]
    ELSE Undefined

\* DatabaseStorage.getUserByEmail
DbGetUserByEmail(table, email) ==
    IF \E i \in DOMAIN table : table[i].email = email
    THEN table[CHOOSE i \in DOMAIN table : table[i].email = email]
    ELSE Undefined

\* The demo user of DatabaseStorageWithInit.
DemoUser == [username |-> "demo_user", email |-> "demo@example.com", plan |-> "starter"]

\* DatabaseStorageWithInit.initializeDemoData at clock reading t: the users,
\* the profiles and the flag it leaves.  A createUser that throws is caught
\* and leaves the flag unset.
InitializeDemoData(usersTable, profiles, init, t) ==
    IF init
    THEN [users |-> usersTable, userProfiles |-> profiles, initialized |-> TRUE]
    ELSE LET found == DbGetUserByEmail(usersTable, DemoUser.email)
             created == DbCreateUser(usersTable, DemoUser, t)
             demoId == IF found = Undefined THEN Len(created) ELSE found.id
         IN  IF found = Undefined /\ UsersConflict(usersTable, DemoUser)
             THEN [users |-> usersTable, userProfiles |-> profiles, initialized |-> FALSE]
             ELSE [users |-> IF found = Undefined THEN created ELSE usersTable,
                   userProfiles |->
                       IF \E i \in DOMAIN profiles : profiles[i].userId = demoId
                       THEN profiles
                       ELSE Append(profiles, [id |-> Len(profiles) + 1, userId |-> demoId]),
                   initialized |-> TRUE]

\* Partial<InsertReferralStats>: a field that is not given is Absent.
NoStatsUpdates ==
    [totalReferrals |-> Absent, convertedReferrals |-> Absent,
     totalCommissions |-> Absent, pendingCommissions |-> Absent]

\* The ReferralStats of a user without a row, as the routes read it
\* (stats?.field || 0).
NoStats(owner) ==
    [userId |-> owner, totalReferrals |-> 0, convertedReferrals |-> 0,
     totalCommissions |-> 0, pendingCommissions |-> 0, paidCommissions |-> 0]

\* DatabaseStorage.getReferralStats: the first row of the user.
DbGetReferralStats(table, owner) ==
    IF \E i \in DOMAIN table : table[i].userId = owner
    THEN table[CHOOSE i \in DOMAIN table :
                  /\ table[i].userId = owner
                  /\ \A j \in DOMAIN table : table[j].userId = owner => i <= j]
    ELSE Undefined

\* { ...row, ...updates }: the fields that are given replace the row's.
StatsAssigned(row, updates) ==
    [row EXCEPT
       !.totalReferrals = IF updates.totalReferrals # Absent
                          THEN updates.totalReferrals ELSE @,
       !.convertedReferrals = IF updates.convertedReferrals # Absent
                              THEN updates.convertedReferrals ELSE @,
       !.totalCommissions = IF updates.totalCommissions # Absent
                            THEN updates.totalCommissions ELSE @,
       !.pendingCommissions = IF updates.pendingCommissions # Absent
                              THEN updates.pendingCommissions ELSE @]

\* DatabaseStorage.updateReferralStats: the rows of the user are SET to the
\* updates; without a row one is inserted with the defaults and the updates.
DbUpdateReferralStats(table, owner, updates) ==
    IF DbGetReferralStats(table, owner) # Undefined
    THEN [i \in DOMAIN table |-> IF table[i].userId = owner
                                 THEN StatsAssigned(table[i], updates) ELSE table[i]]
    ELSE Append(table, StatsAssigned(NoStats(owner), updates))

\* POST /api/referral/track on the exported storage: 404 for an unknown
\* code; otherwise the signup and, when it did not throw, the referral and
\* updateReferralStats(code.userId, {totalReferrals: 1}).
ReferralTrack(referralCode, newUserEmail, t) ==
    LET code == DbGetReferralCodeByCode(referralCodes, referralCode)
        insertUser == [username |-> LocalPart(newUserEmail), email |-> newUserEmail,
                       plan |-> "starter"]
        signedUp == DbCreateUser(users, insertUser, t)
    IN  /\ Len(signedUp) <= MaxUsers + 2
        /\ Len(referrals) < MaxReferrals
        /\ OpsQuiescent
        /\ IF code = Undefined
           THEN /\ lastOp' = [op |-> "referralTrack", status |-> 404]
                /\ UNCHANGED <<users, referrals, referralStats>>
           ELSE IF UsersConflict(users, insertUser)
                THEN /\ lastOp' = [op |-> "referralTrack", status |-> 500]
                     /\ UNCHANGED <<users, referrals, referralStats>>
                ELSE /\ users' = signedUp
                     /\ referrals' = DbCreateReferral(referrals, signedUp,
                                        [referrerId |-> code.userId,
                                         refereeId |-> Len(signedUp),
                                         referralCode |-> code.code,
                                         status |-> "pending"])
                     /\ referralStats' = DbUpdateReferralStats(referralStats, code.userId,
                                            [NoStatsUpdates EXCEPT !.totalReferrals = 1])
                     /\ lastOp' = [op |-> "referralTrack", status |-> 200]
        /\ UNCHANGED <<mem, generatedNames, searchHistory, userProfiles, referralCodes,
                       initialized, ops>>
        /\ UNCHANGED <<now, walletVars, chatVars, digitalProductPurchases>>

\* POST /api/referral/convert on the exported storage at new Date() = t:
\* updateReferralStatus with the commission; then the referral is looked up
\* in (storage as any).referrals, a Map that only MemStorage has, so no
\* referral is found and the statistics are left as they are.
ReferralConvert(referralId, amount, t) ==
    /\ referrals' = DbUpdateReferralStatus(referrals, referralId, "converted", t,
                                           Commission(amount))
    /\ lastOp' = [op |-> "referralConvert", status |-> 200]
    /\ UNCHANGED <<mem, users, generatedNames, searchHistory, userProfiles, referralCodes,
                   initialized, ops>>
    /\ UNCHANGED <<now, walletVars, chatVars, referralStats, digitalProductPurchases>>

\* POST /api/payment-automation with a referralCode: getUserByEmail (which
\* initializes the demo data for any other email), then the user is upgraded
\* or created; when the code exists a referral is inserted.  A createUser
\* that throws ends the request with 500.  The referral carries the
\* commission of the amount, and the statistics of the code's owner are
\* rewritten from the values read just before.  A body without an amount
\* (or with amount 0) is answered 400 before any storage call and is not
\* among the inputs.  The transactions table is not part of the state.
PaymentAutomation(userEmail, amount, subscriptionPlan, referralCode, t) ==
    LET demo == IF userEmail # DemoUser.email
                THEN InitializeDemoData(users, userProfiles, initialized, BootInstant)
                ELSE [users |-> users, userProfiles |-> userProfiles,
                      initialized |-> initialized]
        found == DbGetUserByEmail(demo.users, userEmail)
        insertUser == [username |-> LocalPart(userEmail) \o "_" \o ToString(t),
                       email |-> userEmail, plan |-> subscriptionPlan]
        failed == found = Undefined /\ UsersConflict(demo.users, insertUser)
        usersAfter == IF found = Undefined
                      THEN DbCreateUser(demo.users, insertUser, BootInstant)
                      ELSE [demo.users EXCEPT ![found.id].plan = subscriptionPlan]
        payer == IF found = Undefined THEN Len(usersAfter) ELSE found.id
        codeData == DbGetReferralCodeByCode(referralCodes, referralCode)
        stats == IF DbGetReferralStats(referralStats, codeData.userId) = Undefined
                 THEN NoStats(codeData.userId)
                 ELSE DbGetReferralStats(referralStats, codeData.userId)
    IN  /\ Len(usersAfter) <= MaxUsers + 1
        /\ Len(referrals) < MaxReferrals
        /\ OpsQuiescent
        /\ userProfiles' = demo.userProfiles
        /\ initialized' = demo.initialized
        /\ users' = usersAfter
        /\ referrals' = IF failed \/ codeData = Undefined
                        THEN referrals
                        ELSE Append(referrals,
                                 ReferralUpdated(
                                     ReferralRow(Len(referrals) + 1,
                                         [referrerId |-> codeData.userId,
                                          refereeId |-> payer,
                                          referralCode |-> referralCode,
                                          status |-> "converted"]),
                                     "converted", BootInstant, Commission(amount)))
        /\ referralStats' =
              IF failed \/ codeData = Undefined
              THEN referralStats
              ELSE DbUpdateReferralStats(referralStats, codeData.userId,
                       [totalReferrals |-> stats.totalReferrals + 1,
                        convertedReferrals |-> stats.convertedReferrals + 1,
                        totalCommissions |-> stats.totalCommissions + Commission(amount),
                        pendingCommissions |->
                            stats.pendingCommissions + Commission(amount)])
        /\ lastOp' = [op |-> "paymentAutomation", status |-> IF failed THEN 500 ELSE 200]
        /\ UNCHANGED <<mem, generatedNames, searchHistory, referralCodes, ops>>
        /\ UNCHANGED <<now, walletVars, chatVars, digitalProductPurchases>>

\* createReferral and updateReferralStatus calls on both backends and the
\* convert requests.
NextReferralStatus ==
    \/ \E insertUser \in InsertUsers : CreateUser(insertUser, BootInstant)
    \/ \E insertReferral \in InsertReferrals : CreateReferral(insertReferral)
    \/ \E referralId \in 1..MaxReferrals, status \in ReferralStatuses :
          UpdateReferralStatus(referralId, status)
    \/ \E referralId \in 1..MaxReferrals, amount \in PurchaseAmounts :
          ReferralConvert(referralId, amount, BootInstant)

SpecReferralStatus == Init /\ [][NextReferralStatus]_vars

\* The requests and calls that create referrals, one at a time.
NextReferrals ==
    \/ \E insertUser \in InsertUsers :
          OpsQuiescent /\ CreateUser(insertUser, BootInstant)
    \/ OpsQuiescent /\ CallCreateReferralCode(1)
    \/ \E o \in DOMAIN ops, t \in ClockReadings : SelectExistingCode(o, t)
    \/ \E o \in DOMAIN ops : InsertReferralCode(o)
    \/ \E insertReferral \in InsertReferrals : OpsQuiescent /\ CreateReferral(insertReferral)
    \/ \E referralCode \in RequestCodes, newUserEmail \in Emails :
          ReferralTrack(referralCode, newUserEmail, BootInstant)
    \/ \E userEmail \in Emails, amount \in PurchaseAmounts \ {0},
          plan \in SubscriptionPlans, referralCode \in RequestCodes, t \in ClockReadings :
          PaymentAutomation(userEmail, amount, plan, referralCode, t)

SpecReferrals == Init /\ [][NextReferrals]_vars

\* newUserEmail of the track requests that follow the signup of the demo
\* user.
TrackEmails == {"ana@example.com", "bo@example.com"}

\* The demo user, its referral code, and track and convert requests, one at
\* a time.
NextReferralStats ==
    \/ users = <<>> /\ CreateUser(DemoUser, BootInstant)
    \/ OpsQuiescent /\ CallCreateReferralCode(1)
    \/ \E o \in DOMAIN ops, t \in ClockReadings : SelectExistingCode(o, t)
    \/ \E o \in DOMAIN ops : InsertReferralCode(o)
    \/ \E referralCode \in RequestCodes, newUserEmail \in TrackEmails :
          ReferralTrack(referralCode, newUserEmail, BootInstant)
    \/ \E referralId \in 1..MaxReferrals, amount \in PurchaseAmounts, t \in Instants :
          OpsQuiescent /\ ReferralConvert(referralId, amount, t)

SpecReferralStats == Init /\ [][NextReferralStats]_vars

\* The ReferralStats of a user, zero in every count without a row.
StatsOf(table, owner) ==
    IF DbGetReferralStats(table, owner) = Undefined THEN NoStats(owner)
    ELSE DbGetReferralStats(table, owner)

\* The referral is converted, dated t, with 30% of the amount as commission.
ConvertedWith(row, amount, t) ==
    /\ row.status = "converted"
    /\ row.conversionDate = t
    /\ row.commissionAmount = Commission(amount)

\* C27: a convert request for an existing pending referral with purchase
\* amount A > 0 leaves the referral converted, with a conversion date and a
\* commission of 30% of A, and the referrer's statistics with
\* convertedReferrals one higher and pendingCommissions and totalCommissions
\* each higher by 30% of A.
C27_ConvertUpdatesReferralAndStats ==
    [][\A referralId \in 1..MaxReferrals, amount \in PurchaseAmounts \ {0},
          t \in Instants :
          (/\ ReferralConvert(referralId, amount, t)
           /\ referralId \in DOMAIN referrals
           /\ referrals[referralId].status = "pending") =>
              LET referrer == referrals[referralId].referrerId
                  before == StatsOf(referralStats, referrer)
                  after == StatsOf(referralStats', referrer)
              IN /\ ConvertedWith(referrals'[referralId], amount, t)
                 /\ after.convertedReferrals = before.convertedReferrals + 1
                 /\ after.pendingCommissions =
                       before.pendingCommissions + Commission(amount)
                 /\ after.totalCommissions =
                       before.totalCommissions + Commission(amount)]_vars

\* C28: the totalReferrals of a referrer's statistics equals the number of
\* referral rows of that referrer, all of them created by track requests.
C28_TotalReferralsCountsRows ==
    \A i \in DOMAIN referralStats :
        referralStats[i].totalReferrals =
            Cardinality({j \in DOMAIN referrals :
                            referrals[j].referrerId = referralStats[i].userId})

\* pending -> converted -> paid
StatusOrder == <<"pending", "converted", "paid">>

StatusRank(status) == CHOOSE k \in DOMAIN StatusOrder : StatusOrder[k] = status

\* A status that is one of the three and not behind the status before it.
MovedForward(before, after) ==
    /\ after \in {StatusOrder[k] : k \in DOMAIN StatusOrder}
    /\ before \in {StatusOrder[k] : k \in DOMAIN StatusOrder} =>
          StatusRank(before) <= StatusRank(after)

\* C11: in each backend, no step moves the status of a referral backwards
\* along pending -> converted -> paid or to a status outside the three.
C11_ReferralStatusOnlyMovesForward ==
    [][/\ \A i \in DOMAIN referrals :
             MovedForward(referrals[i].status, referrals'[i].status)
       /\ \A i \in DOMAIN mem.referrals :
             MovedForward(mem.referrals[i].status, mem.referrals'[i].status)]_vars

\* C12: every referral row that a step creates has status pending.
C12_ReferralPendingAtCreation ==
    [][/\ \A i \in DOMAIN referrals' \ DOMAIN referrals : referrals'[i].status = "pending"
       /\ \A i \in DOMAIN mem.referrals' \ DOMAIN mem.referrals :
             mem.referrals'[i].status = "pending"]_vars

---------------------------------------------------------------------------
(* Generated names and favorites *)

MaxNames == 2

\* userId of createGeneratedName and toggleFavorite.
CallerIds == {1, 2}

\* nameId of toggleFavorite: the ids of the names and one that no name has.
NameRefs == 1..(MaxNames + 1)

\* insertName.name
NameTexts == {"Acme"}

\* The row of a generated name.
NameRow(id, owner, name) == [id |-> id, userId |-> owner, name |-> name, isFavorite |-> FALSE]

\* MemStorage.createGeneratedName
MemCreateGeneratedName(m, owner, name) ==
    [m EXCEPT !.generatedNames = Append(@, NameRow(m.currentNameId, owner, name)),
              !.currentNameId = @ + 1]

\* DatabaseStorage.createGeneratedName: user_id REFERENCES users.
DbCreateGeneratedName(table, usersTable, owner, name) ==
    IF owner \notin DOMAIN usersTable THEN table
    ELSE Append(table, NameRow(Len(table) + 1, owner, name))

\* createGeneratedName with the same arguments on both backends.
CreateGeneratedName(owner, name) ==
    /\ Len(mem.generatedNames) < MaxNames
    /\ Len(generatedNames) < MaxNames
    /\ mem' = MemCreateGeneratedName(mem, owner, name)
    /\ generatedNames' = DbCreateGeneratedName(generatedNames, users, owner, name)
    /\ lastOp' = [op |-> "createGeneratedName", uid |-> owner]
    /\ UNCHANGED <<users, searchHistory, userProfiles, referralCodes, referrals,
                   initialized, ops>>
    /\ UNCHANGED <<now, walletVars, chatVars, referralStats, digitalProductPurchases>>

MemToggleFavoriteAnyOwner(m, uid, nameId) ==
    [m EXCEPT !.generatedNames =
        [i \in DOMAIN @ |-> IF @[i].id = nameId
                            THEN [@[i] EXCEPT !.isFavorite = ~@] ELSE @[i]]]

\* MemStorage.toggleFavorite
MemToggleFavorite(m, uid, nameId) ==
    [m EXCEPT !.generatedNames =
        [i \in DOMAIN @ |-> IF @[i].id = nameId /\ @[i].userId = uid
                            THEN [@[i] EXCEPT !.isFavorite = ~@] ELSE @[i]]]

\* A toggleFavorite call on MemStorage.
ToggleFavoriteMem(uid, nameId) ==
    /\ mem' = MemToggleFavorite(mem, uid, nameId)
    /\ lastOp' = [op |-> "toggleFavorite", backend |-> "mem", uid |-> uid,
                  nameId |-> nameId]
    /\ UNCHANGED <<tableVars, initialized, ops>>
    /\ UNCHANGED <<now, walletVars, chatVars, referralStats, digitalProductPurchases>>

\* DatabaseStorage.toggleFavorite up to its first await (the select).  The
\* record keeps the names as they were when the call was made; it is dropped
\* when the call returns.
CallToggleFavorite(uid, nameId) ==
    /\ CanIssue
    /\ ops' = Append(ops, [op |-> "toggleFavorite", backend |-> "db", pc |-> "selectName",
                           error |-> "none", uid |-> uid, nameId |-> nameId,
                           isFavorite |-> FALSE, before |-> generatedNames])
    /\ UNCHANGED <<mem, tableVars, initialized, lastOp>>
    /\ UNCHANGED <<now, walletVars, chatVars, referralStats, digitalProductPurchases>>

\* What a returned toggleFavorite call on DatabaseStorage leaves on record.
ToggleReturned(o) ==
    [op |-> "toggleFavorite", backend |-> "db", error |-> ops[o].error,
     uid |-> ops[o].uid, nameId |-> ops[o].nameId, before |-> ops[o].before]

\* The select of toggleFavorite: WHERE id = nameId AND user_id = userId.
\* Without a row the call returns.
SelectName(o) ==
    /\ ops[o].op = "toggleFavorite" /\ ops[o].pc = "selectName"
    /\ LET found == {i \in DOMAIN generatedNames :
                        /\ generatedNames[i].id = ops[o].nameId
                        /\ generatedNames[i].userId = ops[o].uid}
       IN  IF found = {}
           THEN /\ ops' = RemoveAt(ops, o)
                /\ lastOp' = ToggleReturned(o)
           ELSE /\ ops' = [ops EXCEPT ![o] =
                              [@ EXCEPT !.pc = "updateName",
                                        !.isFavorite =
                                            generatedNames[CHOOSE i \in found : TRUE].isFavorite]]
                /\ UNCHANGED lastOp
    /\ UNCHANGED <<mem, tableVars, initialized>>
    /\ UNCHANGED <<now, walletVars, chatVars, referralStats, digitalProductPurchases>>

\* The update of toggleFavorite: SET is_favorite = !name.isFavorite WHERE
\* id = nameId.
UpdateName(o) ==
    /\ ops[o].op = "toggleFavorite" /\ ops[o].pc = "updateName"
    /\ generatedNames' =
          [i \in DOMAIN generatedNames |->
              IF generatedNames[i].id = ops[o].nameId
              THEN [generatedNames[i] EXCEPT !.isFavorite = ~ops[o].isFavorite]
              ELSE generatedNames[i]]
    /\ ops' = RemoveAt(ops, o)
    /\ lastOp' = ToggleReturned(o)
    /\ UNCHANGED <<mem, users, searchHistory, userProfiles, referralCodes, referrals,
                   initialized>>
    /\ UNCHANGED <<now, walletVars, chatVars, referralStats, digitalProductPurchases>>

\* Names are created and favorites toggled, one call at a time.
NextFavorites ==
    \/ OpsQuiescent /\ CreateUser(DemoUser, BootInstant)
    \/ \E owner \in CallerIds, name \in NameTexts :
          OpsQuiescent /\ CreateGeneratedName(owner, name)
    \/ \E uid \in CallerIds, nameId \in NameRefs :
          OpsQuiescent /\ ToggleFavoriteMem(uid, nameId)
    \/ \E uid \in CallerIds, nameId \in NameRefs :
          OpsQuiescent /\ CallToggleFavorite(uid, nameId)
    \/ \E o \in DOMAIN ops : SelectName(o)
    \/ \E o \in DOMAIN ops : UpdateName(o)

SpecFavorites == Init /\ [][NextFavorites]_vars

\* The names after a toggleFavorite(uid, nameId) that found them as before:
\* the flag of the caller's own name nameId is flipped, nothing else differs.
Toggled(before, after, uid, nameId) ==
    /\ DOMAIN after = DOMAIN before
    /\ \A i \in DOMAIN before :
          after[i] = IF before[i].id = nameId /\ before[i].userId = uid
                     THEN [before[i] EXCEPT !.isFavorite = ~before[i].isFavorite]
                     ELSE before[i]

\* C18: in each backend a toggleFavorite(userId, nameId) call ends without
\* an error; it flips the flag of the name nameId when userId owns it and
\* changes no other name, and changes no name at all when the name belongs
\* to another user or does not exist.
C18_ToggleFavoriteOnlyOwnName ==
    [][/\ \A uid \in CallerIds, nameId \in NameRefs :
             ToggleFavoriteMem(uid, nameId) =>
                 Toggled(mem.generatedNames, mem.generatedNames', uid, nameId)
       /\ \A o \in DOMAIN ops :
             (ops[o].op = "toggleFavorite" /\ ops' = RemoveAt(ops, o)) =>
                 /\ lastOp'.error = "none"
                 /\ Toggled(ops[o].before, generatedNames', ops[o].uid, ops[o].nameId)]_vars

\* DatabaseStorage has just returned from a toggleFavorite of user 2 on a
\* name of user 1 that user 1 had made a favorite before, and MemStorage
\* holds a name that its owner has made a favorite next to one of another
\* user that is not.
C18_Witness ==
    /\ lastOp.op = "toggleFavorite"
    /\ lastOp.backend = "db"
    /\ lastOp.uid = 2
    /\ \E k \in DOMAIN generatedNames :
          /\ generatedNames[k].id = lastOp.nameId
          /\ generatedNames[k].userId = 1
          /\ generatedNames[k].isFavorite
    /\ \E k \in DOMAIN mem.generatedNames : mem.generatedNames[k].isFavorite
    /\ \E k \in DOMAIN mem.generatedNames : ~mem.generatedNames[k].isFavorite

---------------------------------------------------------------------------
(* POST /api/generate-names *)

\* req.body: description, specificName, includeSynonyms.
Bodies ==
    {[description |-> Null, specificName |-> Null, includeSynonyms |-> FALSE],
     [description |-> Null, specificName |-> "Acme", includeSynonyms |-> FALSE],
     [description |-> "a shop", specificName |-> Null, includeSynonyms |-> FALSE],
     [description |-> "a shop", specificName |-> Null, includeSynonyms |-> TRUE]}

\* What nameGenerator.generateNames does: the names it resolves to, or a
\* rejection.
Generated ==
    {[threw |-> FALSE, names |-> <<"Bolt", "Core">>],
     [threw |-> TRUE, names |-> <<>>]}

\* new Date() of the requests: January 2025 and the month after.
RequestInstants == {BootInstant, Instant(2025, 1, 1, 0)}

\* The usage counts updateUserUsage is called with ahead of the requests.
LimitUsages == {9, 10, 19, 20}

\* !req.body.description && !req.body.specificName, and the refinement of
\* nameGenerationRequestSchema.
BodyInvalid(body) == body.description = Null /\ body.specificName = Null

\* isLaunchMonth ? 20 : 10
MonthlyLimit(t) == IF t.year = 2025 /\ t.month = 0 THEN 20 ELSE 10

LimitReachedAbove(plan, usage, t) == plan = "free" /\ usage > MonthlyLimit(t)

\* user.plan === 'free' && user.dailyUsage >= monthlyLimit
LimitReached(plan, usage, t) == plan = "free" /\ usage >= MonthlyLimit(t)

\* generatedNames: the specific name, or what the generator returned.
NamesFor(body, generated) ==
    IF body.specificName # Null THEN <<body.specificName>> ELSE generated.names

\* The generator is called, for a body without a specific name, and rejects.
GeneratorThrows(body, generated) == body.specificName = Null /\ generated.threw

\* storage.createGeneratedName(userId, ...) for each of the names.
RECURSIVE SaveNames(_, _, _, _)
SaveNames(table, usersTable, owner, names) ==
    IF names = <<>> THEN table
    ELSE SaveNames(DbCreateGeneratedName(table, usersTable, owner, Head(names)),
                   usersTable, owner, Tail(names))

\* DatabaseStorage.addSearchHistory
DbAddSearchHistory(table, owner, query) ==
    Append(table, [id |-> Len(table) + 1, userId |-> owner, query |-> query])

\* validatedData.description || validatedData.specificName || ""
QueryOf(body) ==
    IF body.description # Null THEN body.description
    ELSE IF body.specificName # Null THEN body.specificName ELSE ""

\* The answer to a request: the status, the usage count and the limit it was
\* judged by and, in prior, the same of the request answered just before.
Answered(status, usage, t) ==
    [op |-> "generateNames", status |-> status, usage |-> usage,
     limit |-> MonthlyLimit(t),
     prior |-> IF lastOp.op = "generateNames"
               THEN [status |-> lastOp.status, usage |-> lastOp.usage,
                     limit |-> lastOp.limit]
               ELSE [status |-> 0, usage |-> 0, limit |-> 0]]

\* The handler of POST /api/generate-names for userId = 1 on the exported
\* storage, the request served alone: validation, getUser (which
\* initializes the demo data), the month rollover, the two entitlement
\* checks, then the names, the usage and the search history.
GenerateNames(body, generated, t) ==
    LET demo == InitializeDemoData(users, userProfiles, initialized, t)
        user == DbGetUser(demo.users, 1)
        rolled == ~SameMonth(t, user.lastUsageReset)
        usersReset == IF rolled THEN DbResetDailyUsage(demo.users, 1, t) ELSE demo.users
        usage == IF rolled THEN 0 ELSE user.dailyUsage
        names == NamesFor(body, generated)
    IN  /\ OpsQuiescent
        /\ IF BodyInvalid(body)
           THEN /\ lastOp' = Answered(400, 0, t)
                /\ UNCHANGED <<users, userProfiles, initialized, generatedNames, searchHistory>>
           ELSE /\ Len(demo.users) <= MaxUsers + 1
                /\ userProfiles' = demo.userProfiles
                /\ initialized' = demo.initialized
                /\ IF user = Undefined
                   THEN /\ lastOp' = Answered(404, 0, t)
                        /\ users' = demo.users
                        /\ UNCHANGED <<generatedNames, searchHistory>>
                   ELSE IF LimitReached(user.plan, usage, t)
                             \/ (body.includeSynonyms /\ user.plan = "free")
                   THEN /\ lastOp' = Answered(403, usage, t)
                        /\ users' = usersReset
                        /\ UNCHANGED <<generatedNames, searchHistory>>
                   ELSE IF GeneratorThrows(body, generated)
                   THEN /\ lastOp' = Answered(500, usage, t)
                        /\ users' = usersReset
                        /\ UNCHANGED <<generatedNames, searchHistory>>
                   ELSE /\ Len(generatedNames) + Len(names) <= MaxNames
                        /\ generatedNames' = SaveNames(generatedNames, usersReset, 1, names)
                        /\ users' = DbUpdateUserUsage(usersReset, 1, usage + 1, t)
                        /\ searchHistory' = DbAddSearchHistory(searchHistory, 1, QueryOf(body))
                        /\ lastOp' = Answered(200, usage, t)
        /\ UNCHANGED <<mem, referralCodes, referrals, ops>>
        /\ UNCHANGED <<now, walletVars, chatVars, referralStats, digitalProductPurchases>>

\* The signup of user 1, usage counts and generate-names requests, one at a
\* time.
NextGenerate ==
    \/ \E insertUser \in InsertUsers, t \in RequestInstants :
          users = <<>> /\ CreateUser(insertUser, t)
    \/ \E usage \in LimitUsages : UpdateUserUsage(1, usage, BootInstant)
    \/ \E body \in Bodies, generated \in Generated, t \in RequestInstants :
          GenerateNames(body, generated, t)

SpecGenerate == Init /\ [][NextGenerate]_vars

\* User 1 is on the free plan and the last usage reset lies in the month of t.
FreeThisMonth(t) ==
    /\ 1 \in DOMAIN users
    /\ users[1].plan = "free"
    /\ SameMonth(t, users[1].lastUsageReset)

---------------------------------------------------------------------------
(* Wallet routes: POST /api/wallet/add-funds and POST /api/wallet/withdraw *)

\* The user id both wallet routes use.
RouteUserId == 1

\* getUserWallet(owner, walletType): the rows of the owner and type, newest
\* first (created_at is set by the insert, so the newest row has the highest
\* id), and the id of the first one; Absent when there is none.
GetUserWallet(owner, walletType) ==
    LET rows == {w \in DOMAIN digitalWallets :
                    /\ digitalWallets[w].userId = owner
                    /\ digitalWallets[w].walletType = walletType}
    IN IF rows = {} THEN Absent
       ELSE CHOOSE w \in rows : \A v \in rows : v <= w

\* The withdraw handler's test: parseFloat(wallet.balance) < parseFloat(amount).
InsufficientBalance(balance, amount) == balance < amount

\* The withdraw handler up to its first await (getUserWallet).
WithdrawRequest(c, amount) ==
    /\ NextCall(c)
    /\ calls' = [calls EXCEPT ![c] =
                    [@ EXCEPT !.route = "withdraw", !.pc = "getUserWallet",
                              !.userId = RouteUserId, !.walletType = "personal",
                              !.amount = amount]]
    /\ UNCHANGED <<now, digitalWallets, walletTransactions, walletWithdrawals>>
    /\ UNCHANGED chatVars
    /\ UNCHANGED storeVars

\* The withdraw handler from the result of getUserWallet: 404 without a
\* wallet, 400 when the balance of the row just read is below the amount,
\* otherwise the call of createWithdrawal with the fee "2.50", up to its
\* first await.
WithdrawGotWallet(c) ==
    /\ calls[c].route = "withdraw" /\ calls[c].pc = "getUserWallet"
    /\ LET call == calls[c]
           walletId == GetUserWallet(call.userId, call.walletType) IN
       calls' = [calls EXCEPT ![c] =
          IF walletId = Absent
          THEN [call EXCEPT !.pc = "done", !.response = 404]
          ELSE IF InsufficientBalance(digitalWallets[walletId].balance, call.amount)
          THEN [call EXCEPT !.pc = "done", !.response = 400,
                            !.walletId = walletId,
                            !.currentBalance = digitalWallets[walletId].balance]
          ELSE [call EXCEPT !.op = "createWithdrawal", !.pc = "insertWithdrawal",
                            !.walletId = walletId,
                            !.transactionFee = StandardFee,
                            !.netAmount = NetAmount(call.amount, StandardFee)]]
    /\ UNCHANGED <<now, digitalWallets, walletTransactions, walletWithdrawals>>
    /\ UNCHANGED chatVars
    /\ UNCHANGED storeVars

\* The add-funds handler up to its first await (getUserWallet).
AddFundsRequest(c, amount) ==
    /\ NextCall(c)
    /\ calls' = [calls EXCEPT ![c] =
                    [@ EXCEPT !.route = "add-funds", !.pc = "getUserWallet",
                              !.userId = RouteUserId, !.walletType = "personal",
                              !.amount = amount]]
    /\ UNCHANGED <<now, digitalWallets, walletTransactions, walletWithdrawals>>
    /\ UNCHANGED chatVars
    /\ UNCHANGED storeVars

\* The credit the add-funds handler passes to addWalletTransaction, up to the
\* balance read of that call.
AddFundsCredit(call, walletId) ==
    [call EXCEPT !.op = "addWalletTransaction", !.pc = "readBalance",
                 !.walletId = walletId,
                 !.transactionType = "credit",
                 !.sourceType = "deposit",
                 !.status = "completed"]

\* The add-funds handler from the result of getUserWallet: without a wallet
\* it calls createWallet (the address uses the clock reading t), otherwise
\* addWalletTransaction.
AddFundsGotWallet(c, t) ==
    /\ calls[c].route = "add-funds" /\ calls[c].pc = "getUserWallet"
    /\ LET call == calls[c]
           walletId == GetUserWallet(call.userId, call.walletType) IN
       calls' = [calls EXCEPT ![c] =
          IF walletId = Absent
          THEN [call EXCEPT !.op = "createWallet", !.pc = "insertWallet",
                            !.walletAddress =
                                WalletAddress(call.userId, call.walletType, t)]
          ELSE AddFundsCredit(call, walletId)]
    /\ UNCHANGED <<now, digitalWallets, walletTransactions, walletWithdrawals>>
    /\ UNCHANGED chatVars
    /\ UNCHANGED storeVars

\* The add-funds handler after createWallet has returned the new wallet.
AddFundsCreatedWallet(c) ==
    /\ calls[c].route = "add-funds"
    /\ calls[c].op = "createWallet" /\ calls[c].pc = "done"
    /\ calls' = [calls EXCEPT ![c] = AddFundsCredit(@, @.walletId)]
    /\ UNCHANGED <<now, digitalWallets, walletTransactions, walletWithdrawals>>
    /\ UNCHANGED chatVars
    /\ UNCHANGED storeVars

\* The status a wallet route has answered with, 0 while it has not: 404 and
\* 400 are set by the handler, a storage call that threw is caught (500),
\* and a finished one is answered with success.
RouteResponse(call) ==
    IF call.response # 0 THEN call.response
    ELSE IF call.pc = "failed" THEN 500
    ELSE IF call.pc = "done" /\ call.op # "createWallet" THEN 200
    ELSE 0

NextWalletRoutes ==
    \/ \E c \in CallIds, amount \in Amounts : WithdrawRequest(c, amount)
    \/ \E c \in CallIds : WithdrawGotWallet(c)
    \/ \E c \in CallIds, amount \in Amounts : AddFundsRequest(c, amount)
    \/ \E c \in CallIds, t \in ClockReadings : AddFundsGotWallet(c, t)
    \/ \E c \in CallIds : AddFundsCreatedWallet(c)
    \/ \E c \in CallIds : InsertWallet(c)
    \/ \E c \in CallIds : InsertWithdrawal(c)
    \/ \E c \in CallIds : ReadBalance(c)
    \/ \E c \in CallIds : InsertTransaction(c)
    \/ \E c \in CallIds : UpdateBalance(c)

\* Concurrent add-funds and withdraw requests.
SpecWalletRoutes == Init /\ [][NextWalletRoutes]_vars

\* C25: under any interleaving of concurrent withdraw and add-funds requests
\* with positive amounts the balance of the personal wallet is never
\* negative.
C25_BalanceNeverNegative ==
    \A w \in DOMAIN digitalWallets : digitalWallets[w].balance >= 0


---------------------------------------------------------------------------
(* POST /api/generate-names, requests served concurrently *)

\* A generate-names request that has been answered.
RequestAnswered(request, status) == [request EXCEPT !.pc = "done", !.status = status]

\* The handler from line 159 on, up to its next await: the two entitlement
\* checks, then the specific name, or the call of the name generator.
AfterUsageChecks(request) ==
    IF LimitReached(request.plan, request.usage, request.t)
          \/ (request.body.includeSynonyms /\ request.plan = "free")
    THEN RequestAnswered(request, 403)
    ELSE IF request.body.specificName # Null
    THEN [request EXCEPT !.pc = "createGeneratedName",
                         !.names = <<request.body.specificName>>]
    ELSE [request EXCEPT !.pc = "generateNames"]

\* The handler up to its first await: the body is validated, then getUser is
\* called.
CallGenerateNames(body) ==
    /\ CanIssue
    /\ ops' = Append(ops,
          LET request == [op |-> "generateNames", pc |-> "getUser", body |-> body,
                          t |-> BootInstant, plan |-> Null, usage |-> 0,
                          names |-> <<>>, status |-> 0]
          IN IF BodyInvalid(body) THEN RequestAnswered(request, 400) ELSE request)
    /\ UNCHANGED <<mem, users, generatedNames, searchHistory, userProfiles, referralCodes,
                   referrals, initialized, lastOp>>
    /\ UNCHANGED <<now, walletVars, chatVars, referralStats, digitalProductPurchases>>

\* getUser has returned (the exported storage initializes the demo data
\* first) and new Date() is t: 404 without the user; in a new month
\* resetDailyUsage is called; otherwise the checks follow.
GenerateNamesGotUser(o, t) ==
    /\ ops[o].op = "generateNames" /\ ops[o].pc = "getUser"
    /\ LET demo == InitializeDemoData(users, userProfiles, initialized, t)
           user == DbGetUser(demo.users, 1)
           request == [ops[o] EXCEPT !.t = t]
       IN /\ Len(demo.users) <= MaxUsers + 1
          /\ users' = demo.users
          /\ userProfiles' = demo.userProfiles
          /\ initialized' = demo.initialized
          /\ ops' = [ops EXCEPT ![o] =
                IF user = Undefined THEN RequestAnswered(request, 404)
                ELSE IF ~SameMonth(t, user.lastUsageReset)
                THEN [request EXCEPT !.pc = "resetDailyUsage", !.plan = user.plan]
                ELSE AfterUsageChecks([request EXCEPT !.plan = user.plan,
                                                      !.usage = user.dailyUsage])]
    /\ UNCHANGED <<mem, generatedNames, searchHistory, referralCodes, referrals, lastOp>>
    /\ UNCHANGED <<now, walletVars, chatVars, referralStats, digitalProductPurchases>>

\* resetDailyUsage has run; user.dailyUsage = 0 and the checks follow.
GenerateNamesResetUsage(o) ==
    /\ ops[o].op = "generateNames" /\ ops[o].pc = "resetDailyUsage"
    /\ users' = DbResetDailyUsage(users, 1, ops[o].t)
    /\ ops' = [ops EXCEPT ![o] = AfterUsageChecks([@ EXCEPT !.usage = 0])]
    /\ UNCHANGED <<mem, generatedNames, searchHistory, userProfiles, referralCodes,
                   referrals, initialized, lastOp>>
    /\ UNCHANGED <<now, walletVars, chatVars, referralStats, digitalProductPurchases>>

\* nameGenerator.generateNames has settled: a rejection is answered 500.
GenerateNamesGenerated(o, generated) ==
    /\ ops[o].op = "generateNames" /\ ops[o].pc = "generateNames"
    /\ ops' = [ops EXCEPT ![o] =
          IF generated.threw THEN RequestAnswered(@, 500)
          ELSE [@ EXCEPT !.pc = "createGeneratedName", !.names = generated.names]]
    /\ UNCHANGED <<mem, users, generatedNames, searchHistory, userProfiles, referralCodes,
                   referrals, initialized, lastOp>>
    /\ UNCHANGED <<now, walletVars, chatVars, referralStats, digitalProductPurchases>>

\* The createGeneratedName calls of Promise.all have stored the names.
GenerateNamesSaved(o) ==
    /\ ops[o].op = "generateNames" /\ ops[o].pc = "createGeneratedName"
    /\ Len(generatedNames) + Len(ops[o].names) <= MaxNames
    /\ generatedNames' = SaveNames(generatedNames, users, 1, ops[o].names)
    /\ ops' = [ops EXCEPT ![o].pc = "updateUserUsage"]
    /\ UNCHANGED <<mem, users, searchHistory, userProfiles, referralCodes,
                   referrals, initialized, lastOp>>
    /\ UNCHANGED <<now, walletVars, chatVars, referralStats, digitalProductPurchases>>

\* storage.updateUserUsage(userId, user.dailyUsage + 1), with the dailyUsage
\* of the user object getUser returned.
GenerateNamesUpdateUsage(o) ==
    /\ ops[o].op = "generateNames" /\ ops[o].pc = "updateUserUsage"
    /\ users' = DbUpdateUserUsage(users, 1, ops[o].usage + 1, ops[o].t)
    /\ ops' = [ops EXCEPT ![o].pc = "addSearchHistory"]
    /\ UNCHANGED <<mem, generatedNames, searchHistory, userProfiles, referralCodes,
                   referrals, initialized, lastOp>>
    /\ UNCHANGED <<now, walletVars, chatVars, referralStats, digitalProductPurchases>>

\* addSearchHistory has run and the names are returned.
GenerateNamesRespond(o) ==
    /\ ops[o].op = "generateNames" /\ ops[o].pc = "addSearchHistory"
    /\ searchHistory' = DbAddSearchHistory(searchHistory, 1, QueryOf(ops[o].body))
    /\ ops' = [ops EXCEPT ![o] = RequestAnswered(@, 200)]
    /\ UNCHANGED <<mem, users, generatedNames, userProfiles, referralCodes,
                   referrals, initialized, lastOp>>
    /\ UNCHANGED <<now, walletVars, chatVars, referralStats, digitalProductPurchases>>

\* The signup of user 1 and concurrent generate-names requests.
NextGenerateRace ==
    \/ \E insertUser \in InsertUsers, t \in RequestInstants :
          users = <<>> /\ CreateUser(insertUser, t)
    \/ \E body \in Bodies : CallGenerateNames(body)
    \/ \E o \in DOMAIN ops, t \in RequestInstants : GenerateNamesGotUser(o, t)
    \/ \E o \in DOMAIN ops : GenerateNamesResetUsage(o)
    \/ \E o \in DOMAIN ops, generated \in Generated : GenerateNamesGenerated(o, generated)
    \/ \E o \in DOMAIN ops : GenerateNamesSaved(o)
    \/ \E o \in DOMAIN ops : GenerateNamesUpdateUsage(o)
    \/ \E o \in DOMAIN ops : GenerateNamesRespond(o)

SpecGenerateRace == Init /\ [][NextGenerateRace]_vars

\* The requests answered 200.
Succeeded == {o \in DOMAIN ops : ops[o].status = 200}

\* Every request has been answered, and those that reached getUser did so
\* in the calendar month of the user's last usage reset.
AllAnsweredThisMonth ==
    /\ OpsQuiescent
    /\ \A o \in DOMAIN ops :
          ops[o].status # 400 => SameMonth(ops[o].t, users[1].lastUsageReset)

\* C26: for free-plan user 1 within one calendar month, under any
\* interleaving of generate-names requests, the requests that succeeded do
\* not exceed the monthly limit and, once all requests are answered,
\* dailyUsage equals the number of requests that succeeded.
C26_UsageCountsSuccesses ==
    (1 \in DOMAIN users /\ users[1].plan = "free" /\ AllAnsweredThisMonth) =>
        /\ Cardinality(Succeeded) <= MonthlyLimit(users[1].lastUsageReset)
        /\ users[1].dailyUsage = Cardinality(Succeeded)


---------------------------------------------------------------------------
(* POST /api/digital-products/:id/purchase *)

\* The ids of the rows of digital_products; the catalogue does not change
\* while the requests run.
DigitalProducts == {1}

\* req.params.id of the requests: a product of the catalogue and an id that
\* no product holds.
ProductRefs == {1, 2}

\* DatabaseStorage.getPurchase: some row of the user and product, Undefined
\* when there is none.
DbGetPurchase(table, owner, productId) ==
    IF \E i \in DOMAIN table : table[i].userId = owner /\ table[i].productId = productId
    THEN table[CHOOSE i \in DOMAIN table :
                  table[i].userId = owner /\ table[i].productId = productId]
    ELSE Undefined

\* DatabaseStorage.createPurchase: the table after the insert.
DbCreatePurchase(table, owner, productId) ==
    Append(table, [id |-> Len(table) + 1, userId |-> owner, productId |-> productId])

\* The handler up to its first await (getDigitalProduct), for userId = 1.
CallPurchase(productId) ==
    /\ CanIssue
    /\ ops' = Append(ops, [op |-> "purchase", pc |-> "getDigitalProduct",
                           userId |-> 1, productId |-> productId, status |-> 0])
    /\ UNCHANGED <<mem, tableVars, initialized, lastOp>>
    /\ UNCHANGED <<now, walletVars, chatVars, digitalProductPurchases>>

\* getDigitalProduct has returned: 404 without the product, otherwise
\* getPurchase is called.
PurchaseGotProduct(o) ==
    /\ ops[o].op = "purchase" /\ ops[o].pc = "getDigitalProduct"
    /\ ops' = [ops EXCEPT ![o] =
          IF @.productId \notin DigitalProducts
          THEN [@ EXCEPT !.pc = "done", !.status = 404]
          ELSE [@ EXCEPT !.pc = "getPurchase"]]
    /\ UNCHANGED <<mem, tableVars, initialized, lastOp>>
    /\ UNCHANGED <<now, walletVars, chatVars, digitalProductPurchases>>

\* getPurchase has returned: 400 with an existing purchase, otherwise
\* createPurchase is called.
PurchaseGotExisting(o) ==
    /\ ops[o].op = "purchase" /\ ops[o].pc = "getPurchase"
    /\ ops' = [ops EXCEPT ![o] =
          IF DbGetPurchase(digitalProductPurchases, @.userId, @.productId) # Undefined
          THEN [@ EXCEPT !.pc = "done", !.status = 400]
          ELSE [@ EXCEPT !.pc = "createPurchase"]]
    /\ UNCHANGED <<mem, tableVars, initialized, lastOp>>
    /\ UNCHANGED <<now, walletVars, chatVars, digitalProductPurchases>>

\* The insert of createPurchase.  user_id REFERENCES users: without the user
\* the statement fails and the request is answered 500.
PurchaseCreated(o) ==
    /\ ops[o].op = "purchase" /\ ops[o].pc = "createPurchase"
    /\ IF ops[o].userId \notin DOMAIN users
       THEN /\ ops' = [ops EXCEPT ![o] = [@ EXCEPT !.pc = "failed", !.status = 500]]
            /\ UNCHANGED digitalProductPurchases
       ELSE /\ digitalProductPurchases' =
                  DbCreatePurchase(digitalProductPurchases, ops[o].userId, ops[o].productId)
            /\ ops' = [ops EXCEPT ![o] = [@ EXCEPT !.pc = "done", !.status = 200]]
    /\ UNCHANGED <<mem, tableVars, initialized, lastOp>>
    /\ UNCHANGED <<now, walletVars, chatVars>>

\* The signup of user 1 and concurrent purchase requests.
NextPurchases ==
    \/ users = <<>> /\ CreateUser(DemoUser, BootInstant)
    \/ \E productId \in ProductRefs : CallPurchase(productId)
    \/ \E o \in DOMAIN ops : PurchaseGotProduct(o)
    \/ \E o \in DOMAIN ops : PurchaseGotExisting(o)
    \/ \E o \in DOMAIN ops : PurchaseCreated(o)

SpecPurchases == Init /\ [][NextPurchases]_vars

\* C29: under any interleaving of purchase requests there is at most one
\* DigitalProductPurchase row per (user, product) pair.
C29_OnePurchasePerUserAndProduct ==
    \A i, j \in DOMAIN digitalProductPurchases :
        (/\ digitalProductPurchases[i].userId = digitalProductPurchases[j].userId
         /\ digitalProductPurchases[i].productId = digitalProductPurchases[j].productId)
        => i = j


---------------------------------------------------------------------------
(* Storage operations addressed to records that do not exist *)

\* The referral ids given to updateReferralStatus: the ids createReferral
\* assigns and one that no referral holds.
ReferralRefs == 1..(MaxReferrals + 1)

\* User, referral and ledger operations of the storage backends, one at a
\* time, on records that exist and on records that do not.
NextMissing ==
    \/ users = <<>> /\ CreateUser(DemoUser, BootInstant)
    \/ \E uid \in UserRefs, usage \in Usages : UpdateUserUsage(uid, usage, BootInstant)
    \/ \E uid \in UserRefs : ResetDailyUsage(uid, BootInstant)
    \/ \E uid \in UserRefs : GetUser(uid)
    \/ \E insertReferral \in InsertReferrals : CreateReferral(insertReferral)
    \/ \E referralId \in ReferralRefs : UpdateReferralStatus(referralId, "converted")
    \/ \E c \in CallIds, u \in UserIds :
          digitalWallets = <<>> /\ Quiescent /\ CallCreateWallet(c, u, "personal", 0)
    \/ \E c \in CallIds, w \in WalletIds :
          Quiescent /\ CallAddWalletTransaction(c, w, "credit", StandardFee)
    \/ \E c \in CallIds : InsertWallet(c)
    \/ \E c \in CallIds : ReadBalance(c)
    \/ \E c \in CallIds : InsertTransaction(c)
    \/ \E c \in CallIds : UpdateBalance(c)

SpecMissing == Init /\ [][NextMissing]_vars

\* The user id is held by no user of either backend.
UnknownUser(uid) == uid \notin DOMAIN mem.users /\ uid \notin DOMAIN users

\* The referral id is held by no referral of either backend.
UnknownReferral(referralId) ==
    /\ \A i \in DOMAIN mem.referrals : mem.referrals[i].id # referralId
    /\ \A i \in DOMAIN referrals : referrals[i].id # referralId

\* The operation that just ran raised an error in both backends and no
\* stored record changed.
RaisedAndNothingChanged ==
    /\ lastOp'.memError # "none"
    /\ lastOp'.dbError # "none"
    /\ UNCHANGED <<mem, tableVars, digitalProductPurchases>>
    /\ UNCHANGED <<digitalWallets, walletTransactions, walletWithdrawals>>

\* An addWalletTransaction call on a wallet id that no wallet holds ends by
\* throwing, and no stored record changes while it runs.
LedgerCallOnUnknownWalletFails ==
    \A c \in CallIds :
        (/\ calls[c].op = "addWalletTransaction"
         /\ calls[c].walletId \notin DOMAIN digitalWallets
         /\ calls'[c] # calls[c]) =>
            /\ calls'[c].pc # "done"
            /\ UNCHANGED <<mem, tableVars, digitalProductPurchases>>
            /\ UNCHANGED <<digitalWallets, walletTransactions, walletWithdrawals>>

\* getUser on an id that no user holds returns undefined from both backends.
ReadOfUnknownUserIsAbsent ==
    \A uid \in UserRefs :
        (GetUser(uid) /\ UnknownUser(uid)) =>
            /\ lastOp'.memResult = Undefined
            /\ lastOp'.dbResult = Undefined

\* C30: updateUserUsage and resetDailyUsage on an unknown user id,
\* updateReferralStatus on an unknown referral id and addWalletTransaction
\* on an unknown wallet id raise an error and leave every stored record as
\* it was; getUser on an unknown id returns an absent result.
C30_MissingTargetRaisesAndChangesNothing ==
    [][/\ \A uid \in UserRefs, usage \in Usages :
             (UpdateUserUsage(uid, usage, BootInstant) /\ UnknownUser(uid)) =>
                 RaisedAndNothingChanged
       /\ \A uid \in UserRefs :
             (ResetDailyUsage(uid, BootInstant) /\ UnknownUser(uid)) =>
                 RaisedAndNothingChanged
       /\ \A referralId \in ReferralRefs :
             (UpdateReferralStatus(referralId, "converted")
                 /\ UnknownReferral(referralId)) =>
                 RaisedAndNothingChanged
       /\ LedgerCallOnUnknownWalletFails
       /\ ReadOfUnknownUserIsAbsent]_vars

============================================================================
